------------------------------ MODULE Listing ------------------------------
(***************************************************************************)
(* What a listing of a directory promises its caller while others change   *)
(* the directory: what it reports was there at some time during the        *)
(* listing, and what was there all the time is reported once, unless the   *)
(* server refused to tell about it or the listing is said to have failed.  *)
(***************************************************************************)
CONSTANT Entry          \* what a directory may hold

VARIABLES directory,    \* the entries that it holds now
          listing,      \* whether a listing is under way
          succeeded,    \* whether the latest one is said to have succeeded
          kept,         \* entries that were there since the listing began
          seen,         \* <<name, object>> that were there since then
          reported,     \* <<name, object>> reported to the caller
          refused       \* names the server refused to tell about

vars == <<directory, listing, succeeded, kept, seen, reported, refused>>

Pairs(entries) == {<<e.name, e.object>> : e \in entries}

Init ==
    /\ directory \in SUBSET Entry
    /\ ~listing /\ ~succeeded
    /\ kept = {} /\ seen = {} /\ reported = {} /\ refused = {}

Begin ==
    /\ ~listing /\ listing' /\ ~succeeded'
    /\ kept' = directory /\ seen' = Pairs(directory)
    /\ reported' = {} /\ refused' = {}
    /\ UNCHANGED directory

(* Others create, remove and rename.                                       *)
Change ==
    /\ directory' \in SUBSET Entry
    /\ kept' = kept \cap directory'
    /\ seen' = seen \cup Pairs(directory')
    /\ UNCHANGED <<listing, succeeded, reported, refused>>

Report(pair) ==
    /\ listing /\ pair \in seen
    /\ pair \in Pairs(kept) => pair \notin reported
    /\ reported' = reported \cup {pair}
    /\ UNCHANGED <<directory, listing, succeeded, kept, seen, refused>>

Refuse(name) ==
    /\ listing /\ refused' = refused \cup {name}
    /\ UNCHANGED <<directory, listing, succeeded, kept, seen, reported>>

Succeed ==
    /\ listing /\ ~listing' /\ succeeded'
    /\ \A e \in kept : <<e.name, e.object>> \in reported \/ e.name \in refused
    /\ UNCHANGED <<directory, kept, seen, reported, refused>>

Fail ==
    /\ listing /\ ~listing' /\ ~succeeded'
    /\ UNCHANGED <<directory, kept, seen, reported, refused>>

Next ==
    \/ Begin \/ Change \/ Succeed \/ Fail
    \/ \E pair \in seen : Report(pair)
    \/ \E e \in Entry : Refuse(e.name)

Spec == Init /\ [][Next]_vars

=============================================================================
