-------------------------------- MODULE Ledger --------------------------------
(***************************************************************************)
(* What SyncLogsToDB promises, without processes, transactions or scans:   *)
(* a ledger of the calls recorded in some logs.  Entries are only added,   *)
(* in one step with the marks that vouch for them, and a mark is never set *)
(* on a log some reported record of which is missing.  LogSync implements  *)
(* it (LogSync!ImplementsLedger).                                          *)
(***************************************************************************)
EXTENDS Integers, Sequences

CONSTANTS
    Files,
    Wanted(_, _)    \* Wanted(t, s): at time t, calls of time s are reported

VARIABLES
    now,        \* the clock
    log,        \* log[f]: the times of the records of log f
    stored,     \* stored[f]: the records of f in the ledger, by index
    vouched     \* vouched[f]: f is in the ledger up to this time, 0 for no mark

vars == <<now, log, stored, vouched>>

NoMarks == [f \in Files |-> 0]

Init ==
    /\ now = 0
    /\ log = [f \in Files |-> <<>>]
    /\ stored = [f \in Files |-> {}]
    /\ vouched = NoMarks

(* The records of f up to a time that are reported now are all in `have'. *)
Complete(f, have, upto) ==
    \A i \in DOMAIN log[f] :
        log[f][i] <= upto /\ Wanted(now, log[f][i]) => i \in have

(* Time passes, and at most one log is written to.  The new record may be  *)
(* in the ledger at once, if it passes for a misreading of an entry.       *)
Write ==
    /\ now' \in Nat /\ now' > now
    /\ \/ UNCHANGED <<log, stored>>
       \/ \E f \in Files :
             /\ log' = [log EXCEPT ![f] = Append(@, now')]
             /\ \/ UNCHANGED stored
                \/ stored' = [stored EXCEPT ![f] = @ \cup {Len(log[f]) + 1}]
    /\ UNCHANGED vouched

(* Some records are entered, and some logs are vouched for, at once. *)
Deliver ==
    /\ vouched' \in [Files -> 0..now]
    /\ stored' \in [Files -> SUBSET Nat]
    /\ \A f \in Files :
          /\ stored[f] \subseteq stored'[f]
          /\ stored'[f] \subseteq DOMAIN log[f]
          /\ vouched'[f] = vouched[f] \/ Complete(f, stored'[f], vouched'[f])
    /\ UNCHANGED <<now, log>>

(* A forced sync begins: the marks go, the entries stay. *)
Forget ==
    /\ vouched' = NoMarks
    /\ UNCHANGED <<now, log, stored>>

Next == Write \/ Deliver \/ Forget

Spec == Init /\ [][Next]_vars
-----------------------------------------------------------------------------
(* The window of the reports moves forward, if it moves. *)
WindowMovesForward ==
    \A t, u, s \in Nat : t <= u /\ Wanted(u, s) => Wanted(t, s)

(* A log the ledger vouches for has all its reported records in it. *)
Honest == \A f \in Files : Complete(f, stored[f], vouched[f])

(* What makes Honest inductive: nothing is vouched for ahead of time, so   *)
(* that a record written later is newer than every mark.                   *)
LedgerInv ==
    /\ now \in Nat
    /\ log \in [Files -> Seq(Nat)]
    /\ stored \in [Files -> SUBSET Nat]
    /\ vouched \in [Files -> Nat]
    /\ \A f \in Files :
          /\ vouched[f] <= now
          /\ \A i \in DOMAIN log[f] : log[f][i] <= now
          /\ Complete(f, stored[f], vouched[f])
=============================================================================
