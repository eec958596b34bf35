------------------------------ MODULE ListPage ------------------------------
(***************************************************************************)
(* A list page of the console (providers.rs, models.rs, apikeys.rs under   *)
(* frontend/src/pages): its rows, the modal over it and the requests that  *)
(* save a change, with the table they change on the server.                *)
(*                                                                         *)
(* The pages of providers and models keep their rows up to date from the   *)
(* answers of the server ("patched"); the page of keys loads the list      *)
(* again after a create, and after an edit whose row it no longer holds    *)
(* ("reloaded").  A row is its id and the save that wrote it.  One browser *)
(* makes all changes.  The fields of a form, what is shown of a row and    *)
(* the order of the rows are left out.                                     *)
(***************************************************************************)
EXTENDS Naturals, Sequences, Functions

CONSTANTS
  Ids,     \* the rows there can be
  Pages,   \* the pages, of {"patched", "reloaded"}
  MaxOps   \* bound: saves

ASSUME ListAssumption ==
  Pages \subseteq {"patched", "reloaded"} /\ MaxOps \in Nat /\ Ids \cap (1 .. MaxOps) = {}

VARIABLES
  kind,     \* the page
  rows,     \* the table on the server: by id, the save that wrote the row
  ops,      \* the saves
  listed,   \* the page is on the screen
  items,    \* its store: a row that was listed by its id, a row that was pushed by
            \* the save that created it, so that a row may be there twice
  loaded,   \* the value of its resource: "none", "ok" or "err"
  stale,    \* its resource has been triggered
  reload,   \* the fetch of its resource in progress
  modal,    \* the modal over it
  clean     \* history: no save, lost answer or reload got in the way of another

list == <<listed, items, loaded, stale, reload, modal, clean>>
listVars == <<kind, rows, ops, list>>

Ops == 1 .. MaxOps
None == "none"

\* A save: how far the server and the browser are with it.
NoOp == [kind |-> None, id |-> None, server |-> None, browser |-> None]

\* What is kept of a save that is over: how it ended.
Over(op) ==
  IF op.server = "pending" \/ op.browser = "waits" THEN op
  ELSE [NoOp EXCEPT !.server = op.server, !.browser = op.browser]

\* EntityModal, the save it waits for, and whether the list came again since.
Closed == [kind |-> "closed", id |-> None, op |-> 0, reloaded |-> FALSE]

NoRows == [i \in {} |-> 0]

NoReload == [phase |-> "idle", rows |-> NoRows, overlap |-> FALSE]

ListInit ==
  /\ kind \in Pages
  /\ rows \in {[i \in ids |-> 0] : ids \in SUBSET Ids}
  /\ ops = [o \in Ops |-> NoOp]
  /\ listed = FALSE /\ items = NoRows /\ loaded = "none"
  /\ stale = FALSE /\ reload = NoReload /\ modal = Closed /\ clean = FALSE

\* A save that the server may still make, or that the browser waits for.
Live(o) == ops[o].server = "pending" \/ ops[o].browser = "waits"

Committed == {o \in Ops : ops[o].server = "committed"}
Acked     == {o \in Ops : ops[o].browser = "ok"}

-----------------------------------------------------------------------------
(* the page and its list *)

OpenList ==
  /\ ~listed
  /\ listed' = TRUE
  /\ items' = NoRows /\ loaded' = "none" /\ modal' = Closed
  /\ stale' = TRUE /\ reload' = NoReload /\ clean' = FALSE
  /\ UNCHANGED <<kind, rows, ops>>

\* The effects of the page are disposed, the requests run on; the answer of a
\* reload finds its resource gone.
LeaveList ==
  /\ listed
  /\ listed' = FALSE
  /\ items' = NoRows /\ loaded' = "none" /\ modal' = Closed
  /\ stale' = FALSE /\ reload' = NoReload /\ clean' = FALSE
  /\ UNCHANGED <<kind, rows, ops>>

\* do_refetch: the refresh button, the error card's retry button.
Reload ==
  /\ listed /\ modal.kind = "closed"
  /\ stale' = TRUE
  /\ UNCHANGED <<kind, rows, ops, listed, items, loaded, reload, modal, clean>>

ReloadSent ==
  /\ stale /\ reload.phase = "idle"
  /\ stale' = FALSE
  /\ reload' = [NoReload EXCEPT !.phase = "sent", !.overlap = \E o \in Ops : Live(o)]
  /\ UNCHANGED <<kind, rows, ops, listed, items, loaded, modal, clean>>

ReloadRead ==
  /\ reload.phase = "sent"
  /\ reload' = [reload EXCEPT !.phase = "read", !.rows = rows]
  /\ UNCHANGED <<kind, rows, ops, listed, items, loaded, stale, modal, clean>>

Listing(table) == [i \in DOMAIN table |-> [id |-> i, by |-> table[i]]]

\* _sync_store: the answer replaces the store; the rows are made anew.
ReloadApplied ==
  /\ reload.phase = "read"
  /\ items' = Listing(reload.rows) /\ loaded' = "ok"
  /\ modal' = [modal EXCEPT !.reloaded = modal.kind = "edit"]
  /\ clean' = ~reload.overlap
  /\ reload' = NoReload
  /\ UNCHANGED <<kind, rows, ops, listed, stale>>

\* The store stays; the error card takes the place of the table.
ReloadFails ==
  /\ reload.phase # "idle"
  /\ loaded' = "err"
  /\ modal' = [modal EXCEPT !.reloaded = modal.kind = "edit"]
  /\ reload' = NoReload
  /\ UNCHANGED <<kind, rows, ops, listed, items, stale, clean>>

-----------------------------------------------------------------------------
(* the modal *)

\* The modal covers the page and its buttons.
OpenModal(what, id) ==
  /\ listed /\ modal.kind = "closed"
  /\ modal' = [Closed EXCEPT !.kind = what, !.id = id]
  /\ UNCHANGED <<kind, rows, ops, listed, items, loaded, stale, reload, clean>>

\* The button of the card, there whether or not the list could be loaded.
OpenAdd == OpenModal("add", None)

\* The buttons of a row.
RowShown(id) == loaded = "ok" /\ \E i \in DOMAIN items : items[i].id = id

OpenRow(id) == RowShown(id) /\ OpenModal("detail", id)
OpenEdit(id)   == RowShown(id) /\ OpenModal("edit", id)
OpenDelete(id) == RowShown(id) /\ OpenModal("delete", id)

\* Escape, a click outside, the buttons: not while a save is pending.
CloseModal ==
  /\ modal.kind # "closed" /\ modal.op = 0
  /\ modal' = Closed
  /\ UNCHANGED <<kind, rows, ops, listed, items, loaded, stale, reload, clean>>

\* The modal's action is dispatched, and is pending from now on.
Dispatch(o, id) ==
  /\ modal.op = 0
  /\ ops[o] = NoOp /\ \A p \in 1 .. o - 1 : ops[p] # NoOp
  /\ ops' = [ops EXCEPT ![o] = [NoOp EXCEPT !.kind = modal.kind, !.id = id,
                                            !.server = "pending", !.browser = "waits"]]
  /\ modal' = [modal EXCEPT !.op = o]
  /\ reload' = [reload EXCEPT !.overlap = reload.phase # "idle"]
  /\ UNCHANGED <<kind, rows, listed, items, loaded, stale, clean>>

\* on_submit, with a form that is valid: the name in an edit is that of the row.
SubmitNew(o, id) == modal.kind = "add" /\ Dispatch(o, id)
SubmitEdit(o)    == modal.kind = "edit" /\ Dispatch(o, modal.id)

ConfirmDelete(o) == modal.kind = "delete" /\ Dispatch(o, modal.id)

-----------------------------------------------------------------------------
(* the save *)

\* The handler of the server: also after the browser has given up.
ServerCommits(o) ==
  /\ ops[o].server = "pending"
  /\ (ops[o].id \in DOMAIN rows) = (ops[o].kind # "add")
  /\ rows' = IF ops[o].kind = "delete" THEN Restrict(rows, DOMAIN rows \ {ops[o].id})
             ELSE [i \in DOMAIN rows \cup {ops[o].id} |->
                     IF i = ops[o].id THEN o ELSE rows[i]]
  /\ ops' = [ops EXCEPT ![o] = Over([@ EXCEPT !.server = "committed"])]
  /\ clean' = (clean /\ modal.op = o)
  /\ UNCHANGED <<kind, listed, items, loaded, stale, reload, modal>>

\* The name is taken, the row is not there, or it fails otherwise.
ServerRefuses(o) ==
  /\ ops[o].server = "pending"
  /\ ops' = [ops EXCEPT ![o] = Over([@ EXCEPT !.server = "refused"])]
  /\ UNCHANGED <<kind, rows, list>>

\* What the page does with a row that was saved: the row is patched where it is
\* if the modal still holds its Field, which a reload may have disposed of.
Created(o) ==
  IF kind = "patched"
    THEN /\ items' = [i \in DOMAIN items \cup {o} |->
                         IF i = o THEN [id |-> ops[o].id, by |-> o] ELSE items[i]]
         /\ UNCHANGED <<stale, clean>>
    ELSE /\ stale' = TRUE
         /\ UNCHANGED <<items, clean>>

\* Mutant: a reload is left to the user.
EditedBestEffort(o) ==
  \/ /\ \E i \in DOMAIN items : items[i].id = ops[o].id
     /\ items' = [i \in DOMAIN items |->
                    IF items[i].id = ops[o].id THEN [items[i] EXCEPT !.by = o] ELSE items[i]]
     /\ UNCHANGED <<stale, clean>>
  \/ /\ modal.reloaded
     /\ UNCHANGED <<items, stale, clean>>

Edited(o) ==
  \/ /\ \E i \in DOMAIN items : items[i].id = ops[o].id
     /\ items' = [i \in DOMAIN items |->
                    IF items[i].id = ops[o].id THEN [items[i] EXCEPT !.by = o] ELSE items[i]]
     /\ UNCHANGED <<stale, clean>>
  \/ /\ modal.reloaded
     /\ IF kind = "patched" THEN clean' = FALSE /\ stale' = stale
                            ELSE stale' = TRUE /\ clean' = clean
     /\ UNCHANGED items

Deleted(o) ==
  /\ items' = Restrict(items, {i \in DOMAIN items : items[i].id # ops[o].id})
  /\ UNCHANGED <<stale, clean>>

\* The effect of the form or of the confirmation: the store, the toast, the
\* modal.  A created key is shown in a modal of its own.
Applied(o) ==
  /\ CASE ops[o].kind = "add"    -> Created(o)
       [] ops[o].kind = "edit"   -> Edited(o)
       [] ops[o].kind = "delete" -> Deleted(o)
  /\ ops' = [ops EXCEPT ![o] = Over([@ EXCEPT !.browser = "ok"])]
  /\ modal' = IF ops[o].kind = "add" /\ kind = "reloaded"
                THEN [Closed EXCEPT !.kind = "raw"] ELSE Closed
  /\ UNCHANGED <<kind, rows, listed, loaded, reload>>

\* The effect went with the page: nobody looks at the answer.
Unheard(o) ==
  /\ ops' = [ops EXCEPT ![o] = Over([@ EXCEPT !.browser = "ok"])]
  /\ UNCHANGED <<kind, rows, list>>

Acknowledged(o) ==
  /\ ops[o].browser = "waits" /\ ops[o].server = "committed"
  /\ IF modal.op = o THEN Applied(o) ELSE Unheard(o)

\* An error of the server, a timeout or the network: the modal shows it and stays.
\* The request may have been made, or be made yet.
GivenUp(o) ==
  /\ ops[o].browser = "waits"
  /\ ops' = [ops EXCEPT ![o] = Over([@ EXCEPT !.browser = "err"])]
  /\ modal' = IF modal.op = o THEN [modal EXCEPT !.op = 0] ELSE modal
  /\ clean' = (clean /\ ops[o].server # "committed")
  /\ UNCHANGED <<kind, rows, listed, items, loaded, stale, reload>>

-----------------------------------------------------------------------------
ListNext ==
  \/ LeaveList \/ Reload
  \/ ReloadSent \/ ReloadRead \/ ReloadApplied
  \/ OpenAdd \/ CloseModal
  \/ \E id \in Ids : OpenRow(id) \/ OpenEdit(id) \/ OpenDelete(id)
  \/ \E o \in Ops :
       \/ \E id \in Ids : SubmitNew(o, id)
       \/ SubmitEdit(o) \/ ConfirmDelete(o)
       \/ ServerCommits(o) \/ ServerRefuses(o)

-----------------------------------------------------------------------------
(* the property *)

ListSettled == listed /\ loaded = "ok" /\ ~stale /\ reload.phase = "idle" /\ ~\E o \in Ops : Live(o)

\* When everything has come to rest the table shows the rows of the server, each
\* once and as it was last saved, although it is kept up from the answers to the
\* saves.  Until the next reload it may not if a save was under way during a
\* reload (a created row is lost or shown twice, a deleted one comes back), if a
\* save's answer was lost, or if on the pages of providers and models the list was
\* loaded again under an open form.
ListAgrees ==
  ListSettled /\ clean =>
    IsInjective(items) /\ Range(items) = Range(Listing(rows))
=============================================================================
