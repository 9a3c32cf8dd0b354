------------------------------- MODULE MCFront -------------------------------
(***************************************************************************)
(* The HTTP fronts and the evidence behind them for TLC.  The six parts    *)
(* share no state (the binary keeps its chains in memory and leaves the    *)
(* persistent store to others), so a behaviour exercises one of them and   *)
(* leaves the others where they start: what one run explores is the union  *)
(* of their state spaces, not the product.                                 *)
(***************************************************************************)
EXTENDS TrustServer, Vouch, Evidence

CONSTANT Parts      \* the parts to explore

VARIABLE part       \* the part this behaviour exercises

vars == <<part, hsVars, ebVars, cfVars, srVars, esVars, csVars>>

Init == part \in Parts /\ hsInit /\ ebInit /\ cfInit /\ srInit /\ esInit /\ csInit

Next ==
    \/ part = "server" /\ hsNext /\ UNCHANGED <<part, ebVars, cfVars, srVars, esVars, csVars>>
    \/ part = "bus" /\ ebNext /\ UNCHANGED <<part, hsVars, cfVars, srVars, esVars, csVars>>
    \/ part = "costs" /\ cfNext /\ UNCHANGED <<part, hsVars, ebVars, srVars, esVars, csVars>>
    \/ part = "seals" /\ srNext /\ UNCHANGED <<part, hsVars, ebVars, cfVars, esVars, csVars>>
    \/ part = "service" /\ esNext /\ UNCHANGED <<part, hsVars, ebVars, cfVars, srVars, csVars>>
    \/ part = "store" /\ csNext /\ UNCHANGED <<part, hsVars, ebVars, cfVars, srVars, esVars>>

\* The fair actions of a part are disabled where it starts, so the parts a
\* behaviour leaves alone owe nothing.
Spec == Init /\ [][Next]_vars /\ hsFairness /\ ebFairness /\ cfFairness /\ esFairness
-----------------------------------------------------------------------------
\* Every variable of the four parts that keep long-lived state keeps its type.
TypeOK == hsTypeOK /\ ebTypeOK /\ esTypeOK /\ csTypeOK

\* A client never sees half of what the handlers store one map at a time.
ClientsSeeWholePackets == SealsAliasPackets /\ ToldDownloadsCarrySeal /\ RepliedTasksAreKnown

\* The chains in memory are linked from their first entry on, and every packet
\* names the entry that was made for it.
EvidenceIsLinked == ChainsAreLinked /\ PacketsNameTheirEntry

\* What the store has acknowledged is on disk after any death, the file never
\* holds more than memory does, and whatever chain was opened from a damaged
\* file is linked.
StoreIsSound == AcknowledgedIsStored /\ FileIsBehindMemory /\ OpenChainIsLinked

\* No chain in memory loses or changes an entry while the process runs, and no
\* file that held a chain is torn by a later save, wherever it fails.
HistoryIsKept == [][ChainsGrow /\ FileStaysWhole]_vars

\* No handler and no seal waits for ever, whatever fails, stops or is dropped.
EveryCallReturns == EveryRequestEnds /\ EveryCallEnds

\* A client that was overtaken or an open tab gets what it missed.
FeedsCatchUp == CatchesUp /\ RowReachesOpenTab
=============================================================================
