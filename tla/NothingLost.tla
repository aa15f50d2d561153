----------------------------- MODULE NothingLost -----------------------------
(***************************************************************************)
(* What the sync promises its users (REQUIREMENTS.md, FR-5): whatever it   *)
(* does, no content on a device is lost without a trace.  A device holds a *)
(* set of contents and the authority keeps a history that only grows; only *)
(* a user's own write may take content away.                               *)
(***************************************************************************)
EXTENDS Naturals

CONSTANTS
  Content,    \* contents of files
  Device,
  Includes    \* Includes[c]: the contents that are part of c

VARIABLES
  held,       \* held[d]: the contents on device d
  kept,       \* the contents in the authority's history
  writes      \* what users have written so far

Reach(contents) == UNION {Includes[c] : c \in contents}

Init ==
  /\ held = [d \in Device |-> {}]
  /\ kept = {}
  /\ writes = 0

Write(d) ==
  /\ \E contents \in SUBSET Content : held' = [held EXCEPT ![d] = contents]
  /\ writes' = writes + 1
  /\ UNCHANGED kept

Sync ==
  /\ kept \subseteq kept'
  /\ \A d \in Device : held[d] \subseteq Reach(held'[d]) \cup kept'
  /\ UNCHANGED writes

Next == Sync \/ \E d \in Device : Write(d)

Spec == Init /\ [][Next]_<<held, kept, writes>>
=============================================================================
