---------------------------- MODULE MCEventStream ---------------------------
(***************************************************************************)
(* EventStream with a log of two or three events, a hub buffer, a tail, a  *)
(* page and a replay of one, two goroutines that append and one fault.     *)
(***************************************************************************)
EXTENDS EventStream

Says(kind) == [kind |-> kind, tool |-> "t"]

(* A bubble that is cut by a page and ended by a note; a tool call.        *)
MCScripts ==
    {[a \in Attempts |-> IF a = "a" THEN s ELSE <<>>] :
        s \in {<<Says("delta"), Says("delta"), Says("note")>>,
               <<Says("call"), Says("called")>>}}

(* What happens after a selection overtook an answer is not followed.      *)
Followed == ~overlapped
=============================================================================
