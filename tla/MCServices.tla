------------------------------ MODULE MCServices ------------------------------
(***************************************************************************)
(* What the runs lean on, for TLC: the keys, the tenants, the transparency *)
(* log, the rooms and the sockets of Band, and the time-stamping services. *)
(* The six parts share no state: a behaviour exercises one of them and     *)
(* leaves the others where they start.                                     *)
(***************************************************************************)
EXTENDS KeyStores, Witnesses, Band

CONSTANT Parts      \* the parts to explore

VARIABLE part       \* the part this behaviour exercises

vars == <<part, krVars, tkVars, raVars, brVars, bsVars, tsVars>>

Init ==
    /\ part \in Parts
    /\ krInit /\ tkInit /\ raInit /\ brInit /\ bsInit /\ tsInit
    /\ part # "rekor" => mode = "none" /\ cosign = "missing"

Next ==
    \/ part = "rotation" /\ krNext /\ UNCHANGED <<part, tkVars, raVars, brVars, bsVars, tsVars>>
    \/ part = "tenants" /\ tkNext /\ UNCHANGED <<part, krVars, raVars, brVars, bsVars, tsVars>>
    \/ part = "rekor" /\ raNext /\ UNCHANGED <<part, krVars, tkVars, brVars, bsVars, tsVars>>
    \/ part = "rooms" /\ brNext /\ UNCHANGED <<part, krVars, tkVars, raVars, bsVars, tsVars>>
    \/ part = "sockets" /\ bsNext /\ UNCHANGED <<part, krVars, tkVars, raVars, brVars, tsVars>>
    \/ part = "stamps" /\ tsNext /\ UNCHANGED <<part, krVars, tkVars, raVars, brVars, bsVars>>

Spec == Init /\ [][Next]_vars /\ raFairness /\ brFairness
-----------------------------------------------------------------------------
\* What was signed can still be checked across rotations, no process serves a
\* tenant with a torn key, and no tenant learns another's room.
KeysAreSound == SignaturesCanBeChecked /\ TenantsAreApart

\* Band's answers reach those who asked: no room or request is given what was
\* meant for another, whichever answers are late, and no event is dropped.
BandAnswersAreTheirOwn == RoomsAreTheirOwn /\ AnswerIsToItsRequest /\ NoEventIsLost

\* Neither a log nor a bridge that has stopped answering holds a caller for
\* good.
NothingHangs == EveryRoomCallReturns /\ NoRunWaitsForTheLog
-----------------------------------------------------------------------------
MCParticipants == <<"extractor">>
MCSpawnModes == [key : BOOLEAN, mode : {"real", "other"}, spawned : BOOLEAN]

\* A root, and a certificate it signed whose numbers carry a leading zero and
\* a high bit.  R0 has the name of R1 and another key.
Root(subject, key, kind, id) ==
    [subject |-> subject, issuer |-> subject, serial |-> id, ski |-> key, key |-> key,
     kind |-> kind, by |-> key, sigAlg |-> "ecdsaSha384", size |-> 512,
     rs |-> << <<1, 2>>, <<3, 4>> >>, ca |-> TRUE, timeStamping |-> FALSE, id |-> id]
Leaf(root, key, alg, id) ==
    [subject |-> "tsa", issuer |-> root.subject, serial |-> id, ski |-> key, key |-> key,
     kind |-> "p384", by |-> root.key, sigAlg |-> alg, size |-> 0,
     rs |-> << <<0, 200>>, <<3, 4>> >>, ca |-> FALSE, timeStamping |-> TRUE, id |-> id]
R1 == Root("root", "k1", "p384", 1)
R0 == Root("root", "k0", "p384", 2)
R2 == Root("rsa root", "k2", "rsa", 3)
A1 == [cert |-> Leaf(R1, "t1", "ecdsaSha384", 4), root |-> R1]
A2 == [cert |-> Leaf(R2, "t2", "rsaSha512", 5), root |-> R2]

MCAuthorities == {A1, A2}
MCScalars == {<< <<0, 1>>, <<200, 0>> >>, << <<0, 200>>, <<7, 7>> >>}
MCRootLists == {<<R1>>, <<R0, R1>>, <<R1, R0>>, <<R2>>, <<R0, R2>>, <<>>}
MCChains == {<<>>, <<A1.cert, R1>>, <<[R1 EXCEPT !.ca = FALSE]>>}
=============================================================================
