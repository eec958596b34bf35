------------------------------- MODULE EventLog -------------------------------
(***************************************************************************)
(* What the log store promises, with no channel, worker or transaction:    *)
(* an offered event is held or refused on the spot; a held event is stored *)
(* or lost, once, and in either case together with the whole batch it was  *)
(* in; a stored row, of this run or of an earlier one, leaves only once it *)
(* has aged past retention; when closed nothing changes.                   *)
(***************************************************************************)
CONSTANTS Events, OldRows

VARIABLES fresh, held, stored, lost, aged, closed

logVars == <<fresh, held, stored, lost, aged, closed>>

LogInit ==
  /\ fresh = Events
  /\ held = {}
  /\ stored = OldRows
  /\ lost = {}
  /\ aged = {}
  /\ closed = FALSE

Offer(e) ==
  /\ ~closed
  /\ e \in fresh
  /\ fresh' = fresh \ {e}
  /\ \/ held' = held \cup {e} /\ lost' = lost
     \/ lost' = lost \cup {e} /\ held' = held
  /\ UNCHANGED <<stored, aged, closed>>

Store(B) ==
  /\ ~closed
  /\ B # {}
  /\ B \subseteq held
  /\ held' = held \ B
  /\ stored' = stored \cup B
  /\ UNCHANGED <<fresh, lost, aged, closed>>

Lose(B) ==
  /\ ~closed
  /\ B # {}
  /\ B \subseteq held
  /\ held' = held \ B
  /\ lost' = lost \cup B
  /\ UNCHANGED <<fresh, stored, aged, closed>>

Age(r) ==
  /\ ~closed
  /\ r \in stored \ aged
  /\ aged' = aged \cup {r}
  /\ UNCHANGED <<fresh, held, stored, lost, closed>>

Expire(B) ==
  /\ ~closed
  /\ B \subseteq stored \cap aged
  /\ stored' = stored \ B
  /\ UNCHANGED <<fresh, held, lost, aged, closed>>

Close ==
  /\ ~closed
  /\ closed' = TRUE
  /\ UNCHANGED <<fresh, held, stored, lost, aged>>

LogNext ==
  \/ \E e \in Events : Offer(e)
  \/ \E B \in SUBSET Events : Store(B) \/ Lose(B)
  \/ \E r \in Events \cup OldRows : Age(r)
  \/ \E B \in SUBSET (Events \cup OldRows) : Expire(B)
  \/ Close

LogSpec == LogInit /\ [][LogNext]_logVars
=============================================================================
