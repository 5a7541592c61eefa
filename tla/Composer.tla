------------------------------ MODULE Composer ------------------------------
(***************************************************************************)
(* The boxes in which a user writes: the message input of a card           *)
(* (chatInputMixin), and the forms in which a card is made (NewTaskModal)  *)
(* or edited, with their description, tags and dependencies. Files go to   *)
(* the server first, and what they put into the text comes with its        *)
(* answers, while the user goes on typing, sending and saving. The two     *)
(* kinds of box treat such an answer differently: the message input takes  *)
(* the text it had when the upload began, DescriptionEditor the text it    *)
(* has now.                                                                *)
(*                                                                         *)
(* A text is the set of its pieces, what the user typed and the links to   *)
(* files: what is above what is left out. So are the other fields of a     *)
(* form, which hold what was typed last, and a title is taken to be there. *)
(* An upload store is configured: without one there are no uploads.        *)
(*                                                                         *)
(* An operator whose comment begins with VARIANT is not used by the model: *)
(* it says what a wrong form of the operator after it would be.            *)
(***************************************************************************)
EXTENDS Naturals, Sequences, FiniteSets, Lists

CONSTANTS
    Boxes,      \* the boxes in use, of "message", "new" and "edit"
    Words,      \* what a user types
    Files,      \* what a user attaches
    Category,   \* of a file: image, video, audio, doc or archive
    Named,      \* files whose names say something, and stand in the link
    Tags,       \* names of tags
    Tasks,      \* cards to depend on
    NoTask,     \* a dependency that has not been chosen
    MaxUps,     \* bound: uploads in flight
    MaxTurns    \* bound: what users do, and faults

ASSUME PieceAssumption == Words \cap Files = {} /\ Named \subseteq Files
ASSUME CategoryAssumption == DOMAIN Category = Files
ASSUME BoxAssumption == Boxes \subseteq {"message", "new", "edit"} /\ NoTask \notin Tasks
ASSUME BoundAssumption == MaxUps \in Nat /\ MaxTurns \in Nat

VARIABLES
    box,        \* which box this is
    open,       \* the form is on the screen; the message input always is
    form,       \* the text, the tags and the dependencies
    query,      \* names in the field of the tags, not yet chips
    uploading,  \* what disables the button
    ups,        \* the uploads in flight
    calls,      \* the saves in flight
    stored,     \* the card on the server, when it is edited
    load,       \* the load of it in flight, none or the last one
    turns,      \* bound: how many so far
    mine,       \* ghost: what the user has put in and not taken out
    touched,    \* ghost: what was put in or taken out while an upload was under way
    muddled     \* ghost: uploads overlapped, or a link was taken out

fields == <<form, query>>
net == <<uploading, ups, calls, stored, load>>
vars == <<box, open, fields, net, turns, mine, touched, muddled>>

Message == box = "message"

Blank == [text |-> {}, tags |-> <<>>, deps |-> <<>>]

NoLoad == [stage |-> "none", card |-> Blank]

Init ==
    /\ box \in Boxes
    /\ open = (box = "message")
    /\ form = Blank /\ query = <<>>
    /\ uploading = FALSE /\ ups = <<>>
    /\ calls = <<>>
    /\ stored = Blank /\ load = NoLoad
    /\ turns = 0
    /\ mine = {} /\ touched = {} /\ muddled = FALSE

-----------------------------------------------------------------------------
Turn == turns < MaxTurns /\ turns' = turns + 1

RangeOf(s) == {s[i] : i \in DOMAIN s}

Ids(text) == {p.id : p \in text}

(* What a form holds, to compare with what the user put in.                *)
Chip(t) == [tag |-> t]
Items(v) == v.text \cup {Chip(t) : t \in RangeOf(v.tags)} \cup RangeOf(v.deps)

(* What an upload of the message input would undo: it has the old text.    *)
Touch(items) == touched' = IF Message /\ ups # <<>> THEN touched \cup items ELSE touched

Links(text) == {p \in text : p.id \in Files}

-----------------------------------------------------------------------------
(* The text.                                                               *)

Word(w) == [id |-> w, n |-> 0]

Type(w) ==
    /\ open /\ Turn
    /\ w \notin Ids(form.text)
    /\ form' = [form EXCEPT !.text = @ \cup {Word(w)}]
    /\ mine' = mine \cup {Word(w)}
    /\ Touch({Word(w)})
    /\ UNCHANGED <<box, open, query, net, muddled>>

Erase(p) ==
    /\ open /\ Turn
    /\ p \in form.text
    /\ form' = [form EXCEPT !.text = @ \ {p}]
    /\ mine' = mine \ {p}
    /\ Touch({p})
    /\ muddled' = (muddled \/ p.id \in Files)
    /\ UNCHANGED <<box, open, query, net>>

(* sendMsg: the input is emptied before the request is sent, and nothing   *)
(* is put back if that fails.                                              *)
SendMsg ==
    /\ Message /\ Turn
    /\ form.text # {}
    /\ form' = [form EXCEPT !.text = {}]
    /\ mine' = {}
    /\ Touch(form.text)
    /\ UNCHANGED <<box, open, query, net, muddled>>

-----------------------------------------------------------------------------
(* Uploads. A batch has the files in their order, the text there was when  *)
(* it began and the links it has so far.                                   *)

Attach(files) ==
    /\ open /\ Turn
    /\ Len(ups) < MaxUps
    /\ \A i \in DOMAIN files : files[i] \notin Ids(form.text)
    /\ \A i \in DOMAIN ups : RangeOf(files) \cap (RangeOf(ups[i].files) \cup Ids(ups[i].at)) = {}
    /\ uploading' = TRUE
    /\ ups' = Append(ups, [files |-> files, at |-> form.text, done |-> {}])
    /\ muddled' = (muddled \/ ups # <<>>)
    /\ UNCHANGED <<box, open, fields, calls, stored, load, mine, touched>>

(* pickChatImages and onChatImagePick; pickFile and onPickFile, which take *)
(* one file. The button is off while something is uploaded.                *)
PickFiles(files) == ~uploading /\ (Message \/ Len(files) = 1) /\ Attach(files)

(* onChatDrop, onDrop and onPaste: nothing keeps them from overlapping.    *)
DropFiles(files) == (Message \/ Len(files) = 1) /\ Attach(files)

Count(text, c) == Cardinality({p \in Links(text) : Category[p.id] = c})

(* VARIANT: the counters do not count within a batch.                      *)
SnippetAlike(f, u) ==
    [id |-> f, n |-> IF f \in Named THEN 0 ELSE Count(u.at, Category[f]) + 1]

(* chatFileSnippet and snippetFor: a name, or the number after those there.*)
Snippet(f, u) ==
    [id |-> f, n |-> IF f \in Named THEN 0 ELSE Count(u.at \cup u.done, Category[f]) + 1]

(* The answer for a file that is not the last of its batch.                *)
Uploaded(i) ==
    LET u == ups[i]
        k == Cardinality(u.done) + 1
    IN  /\ i \in DOMAIN ups /\ k < Len(u.files)
        /\ ups' = [ups EXCEPT ![i].done = @ \cup {Snippet(u.files[k], u)}]
        /\ UNCHANGED <<box, open, fields, uploading, calls, stored, load, turns, mine, touched,
                       muddled>>

(* VARIANT: DescriptionEditor, too, takes the text the upload began with.  *)
PlacedAtStart(links, u, chosen) == links \cup (u.at \ chosen)

(* The text with the links: in the message input above the text there was  *)
(* when the upload began; in DescriptionEditor, insertAtCursor, in the text*)
(* there is, in place of what is selected.                                 *)
Placed(links, u, chosen) == links \cup ((IF Message THEN u.at ELSE form.text) \ chosen)

(* VARIANT: only a success makes the button work again.                    *)
EndedNot(i) == ups' = Without(ups, i) /\ UNCHANGED uploading

(* finally: the batch is over, though another may not be.                  *)
Ended(i) == ups' = Without(ups, i) /\ uploading' = FALSE

(* The answer for the last file. What is selected by then is replaced.     *)
Place(i, chosen) ==
    LET u     == ups[i]
        links == u.done \cup {Snippet(u.files[Len(u.files)], u)}
        text  == Placed(links, u, chosen)
    IN  /\ i \in DOMAIN ups
        /\ Cardinality(u.done) + 1 = Len(u.files)
        /\ chosen \subseteq form.text /\ (Message => chosen = {})
        /\ form' = [form EXCEPT !.text = text]
        /\ Ended(i)
        /\ mine' = (mine \ chosen) \cup links
        /\ touched' = IF Message /\ Len(ups) > 1 THEN touched \cup links ELSE touched
        /\ muddled' = (muddled \/ Links(form.text) \ text # {})
        /\ UNCHANGED <<box, open, query, calls, stored, load, turns>>

(* An upload fails: all links of its batch are dropped.                    *)
UploadFails(i) ==
    /\ Turn
    /\ i \in DOMAIN ups
    /\ Ended(i)
    /\ UNCHANGED <<box, open, fields, calls, stored, load, mine, touched, muddled>>

-----------------------------------------------------------------------------
(* The tags and the dependencies of a form.                                *)

Field == open /\ ~Message /\ Turn

Change(v, put, out) ==
    /\ form' = v
    /\ mine' = (mine \ out) \cup put
    /\ UNCHANGED <<box, open, net, muddled>>

(* Names are typed one at a time, a comma ends each; or pasted together.   *)
TypeTags(names) ==
    /\ Field
    /\ query = <<>>
    /\ query' = names
    /\ UNCHANGED <<box, open, form, net, mine, touched, muddled>>

New(names) == Kept(names, {i \in DOMAIN names : names[i] \notin RangeOf(form.tags)})

(* commit: each name is added to the tags the component was last rendered  *)
(* with, so of several new ones only the last stays.                       *)
Committed(names) ==
    IF New(names) = <<>> THEN form.tags ELSE Append(form.tags, New(names)[Len(New(names))])

(* Enter, Tab, a comma, or a moment after the field has lost its focus.    *)
Commit ==
    /\ open /\ query # <<>>
    /\ query' = <<>>
    /\ Change([form EXCEPT !.tags = Committed(query)], {Chip(t) : t \in RangeOf(query)}, {})
    /\ touched' = IF Len(query) > 1 THEN touched \cup {Chip(t) : t \in RangeOf(query)}
                  ELSE touched
    /\ UNCHANGED turns

(* add, of a suggestion: it replaces what was typed to find it.            *)
AddTag(t) ==
    /\ Field
    /\ t \notin RangeOf(form.tags)
    /\ query' = <<>>
    /\ Change([form EXCEPT !.tags = Append(@, t)], {Chip(t)}, {})
    /\ UNCHANGED touched

(* remove; and onKey, a backspace in an empty field, for the last one.     *)
RemoveTag(t) ==
    /\ Field
    /\ t \in RangeOf(form.tags)
    /\ Change([form EXCEPT !.tags = Kept(@, {i \in DOMAIN @ : @[i] # t})], {}, {Chip(t)})
    /\ UNCHANGED <<query, touched>>

Backspace ==
    /\ Field
    /\ query = <<>> /\ form.tags # <<>>
    /\ Change([form EXCEPT !.tags = SubSeq(@, 1, Len(@) - 1)], {},
              {Chip(form.tags[Len(form.tags)])})
    /\ UNCHANGED <<query, touched>>

Rows(deps) ==
    /\ Change([form EXCEPT !.deps = deps], RangeOf(deps), RangeOf(form.deps))
    /\ UNCHANGED <<query, touched>>

(* DependencyPicker: add, remove, updateTask and updateState.              *)
AddDep == Field /\ Rows(Append(form.deps, [task_id |-> NoTask, required_state |-> "done"]))

RemoveDep(i) == Field /\ i \in DOMAIN form.deps /\ Rows(Without(form.deps, i))

UpdateDep(i, dep) == Field /\ i \in DOMAIN form.deps /\ Rows([form.deps EXCEPT ![i] = dep])

-----------------------------------------------------------------------------
(* Opening, saving and loading a form.                                     *)

(* A new form is empty; one that is edited again has what it had, loaded   *)
(* or typed. The components in it are made anew.                           *)
Open ==
    /\ ~open /\ Turn
    /\ open' = TRUE
    /\ UNCHANGED <<box, fields, net, mine, touched, muddled>>

(* The form goes: its uploads and the name in the field of the tags with   *)
(* it. The new form forgets what was typed, the edited one does not.       *)
Gone ==
    /\ open' = FALSE
    /\ query' = <<>>
    /\ uploading' = FALSE /\ ups' = <<>>
    /\ IF box = "new"
       THEN form' = Blank /\ mine' = {} /\ touched' = {} /\ muddled' = FALSE
       ELSE UNCHANGED <<form, mine, touched, muddled>>

Close ==
    /\ Field
    /\ Gone
    /\ calls' = IF box = "new" THEN <<>> ELSE calls
    /\ UNCHANGED <<box, stored, load>>

(* The body of a save.                                                     *)
Body == [form EXCEPT !.deps = Kept(@, {i \in DOMAIN @ : @[i].task_id # NoTask})]

Save ==
    /\ Field
    /\ calls' = Append(calls, [body |-> Body, stage |-> "sent"])
    /\ UNCHANGED <<box, open, fields, uploading, ups, stored, load, mine, touched, muddled>>

(* hPatchTask and hCreateTask; the card that is made is not looked at here.*)
Serve(i) ==
    /\ i \in DOMAIN calls /\ calls[i].stage = "sent"
    /\ stored' = IF box = "edit" THEN calls[i].body ELSE stored
    /\ calls' = [calls EXCEPT ![i].stage = "ok"]
    /\ UNCHANGED <<box, open, fields, uploading, ups, load, turns, mine, touched, muddled>>

SaveFails(i) ==
    /\ Turn
    /\ i \in DOMAIN calls
    /\ calls' = Without(calls, i)
    /\ UNCHANGED <<box, open, fields, uploading, ups, stored, load, mine, touched, muddled>>

(* save after its await: the form is closed, whatever it holds by now, and *)
(* an edited card is loaded.                                               *)
Saved(i) ==
    /\ i \in DOMAIN calls /\ calls[i].stage = "ok"
    /\ Gone
    /\ calls' = IF box = "new" THEN <<>> ELSE Without(calls, i)
    /\ load' = IF box = "edit" THEN [NoLoad EXCEPT !.stage = "sent"] ELSE load
    /\ UNCHANGED <<box, stored, turns>>

(* load() for another reason: an attempt was started, or not deleted.      *)
Load ==
    /\ box = "edit" /\ Turn
    /\ load' = [NoLoad EXCEPT !.stage = "sent"]
    /\ UNCHANGED <<box, open, fields, uploading, ups, calls, stored, mine, touched, muddled>>

ReadCard ==
    /\ load.stage = "sent"
    /\ load' = [stage |-> "read", card |-> stored]
    /\ UNCHANGED <<box, open, fields, uploading, ups, calls, stored, turns, mine, touched, muddled>>

(* The answer replaces what the form has, being edited or not.             *)
Loaded ==
    /\ load.stage = "read"
    /\ load' = NoLoad
    /\ form' = load.card
    /\ mine' = Items(load.card) /\ touched' = {}
    /\ muddled' = TRUE
    /\ UNCHANGED <<box, open, query, uploading, ups, calls, stored, turns>>

-----------------------------------------------------------------------------
Batches == {<<f>> : f \in Files} \cup {s \in Files \X Files : s[1] # s[2]}

Pasted == {<<t>> : t \in Tags} \cup {s \in Tags \X Tags : s[1] # s[2]}

Dependency == [task_id : Tasks \cup {NoTask}, required_state : {"verify", "done"}]

Typing ==
    \/ \E w \in Words : Type(w)
    \/ \E p \in form.text : Erase(p)
    \/ SendMsg
Uploads ==
    \/ \E files \in Batches : PickFiles(files) \/ DropFiles(files)
    \/ \E i \in 1 .. MaxUps : Uploaded(i) \/ UploadFails(i)
    \/ \E i \in 1 .. MaxUps, chosen \in SUBSET form.text : Place(i, chosen)
Fields ==
    \/ \E names \in Pasted : TypeTags(names)
    \/ Commit \/ Backspace \/ AddDep
    \/ \E t \in Tags : AddTag(t) \/ RemoveTag(t)
    \/ \E i \in DOMAIN form.deps, d \in Dependency : UpdateDep(i, d)
    \/ \E i \in DOMAIN form.deps : RemoveDep(i)
Saving ==
    \/ Open \/ Close \/ Save \/ Load \/ ReadCard \/ Loaded
    \/ \E i \in DOMAIN calls : Serve(i) \/ SaveFails(i) \/ Saved(i)

Next == Typing \/ Uploads \/ Fields \/ Saving

Spec == Init /\ [][Next]_vars

-----------------------------------------------------------------------------
Pieces == [id : Words \cup Files, n : Nat]

(* The types: no tag stands twice in a form, no dependency without a card  *)
(* is saved, and while the button is off something is being uploaded, so   *)
(* that it goes on again.                                                  *)
TypeOK ==
    /\ box \in Boxes /\ open \in BOOLEAN
    /\ \A v \in {form, stored, load.card} :
           /\ v.text \subseteq Pieces /\ v.tags \in Seq(Tags) /\ v.deps \in Seq(Dependency)
           /\ \A i, j \in DOMAIN v.tags : v.tags[i] = v.tags[j] => i = j
    /\ query \in Seq(Tags)
    /\ Len(ups) <= MaxUps
    /\ uploading => ups # <<>>
    /\ load.stage \in {"none", "sent", "read"}
    /\ \A i \in DOMAIN calls : \A d \in RangeOf(calls[i].body.deps) : d.task_id # NoTask
    /\ turns <= MaxTurns

(* A form holds what the user has put in and not taken out, nothing else:  *)
(* no answer to an upload loses what was typed before it or brings back    *)
(* what was sent or erased, and the tags and dependencies are those chosen.*)
(* In the message input it may lose or bring back what was typed, sent,    *)
(* erased or uploaded meanwhile; of several tags pasted at once some go.   *)
WhatWasPutIn == Items(form) \ touched = mine \ touched

(* Two links to files that have no names do not have the same number: files*)
(* are attached one after the other, and none is taken out in between.     *)
NumbersApart ==
    ~muddled =>
        \A p, q \in Links(form.text) :
            p # q /\ p.n # 0 /\ q.n # 0 => Category[p.id] # Category[q.id] \/ p.n # q.n

=============================================================================
