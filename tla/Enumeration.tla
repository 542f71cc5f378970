---------------------------- MODULE Enumeration ----------------------------
(***************************************************************************)
(* FindFiles of Mile.Cirno.cpp: a directory is read reply by reply, and    *)
(* each entry is walked to by its name and asked for its attributes, all   *)
(* while other clients change the directory.  A step is one request with   *)
(* its answer.  What becomes of the file IDs of the entries is in Volume.  *)
(***************************************************************************)
EXTENDS NtStatus, Integers, FiniteSets, FiniteSetsExt

CONSTANTS Name,         \* names of entries; none holds a path separator
          Object,       \* files and directories
          MaxOffset,    \* bound: offsets of entries
          ErrorCodes,   \* codes with which the server refuses a request
          MaxChanges    \* bound: changes by others

ASSUME EnumerationAssumption ==
    /\ MaxOffset \in Nat /\ MaxChanges \in Nat
    /\ ErrorCodes \subseteq Nat \ {0}
    /\ Name \cap {".", ".."} = {}

Dots == {".", ".."}
Self == "self"      \* the directory and its parent, which the dots denote

Entry == [offset : 1 .. MaxOffset, name : Name, object : Object]

(* No two entries share an offset or a name.                               *)
Directory(entries) ==
    \A e, g \in entries : e.offset = g.offset \/ e.name = g.name => e = g

VARIABLES dots,         \* the two dot entries
          directory,    \* the other entries
          pc, status,   \* of the thread that runs FindFiles
          lastOffset,
          todo,         \* entries of the reply that are still to be handled
          entry,        \* the entry that was walked to ...
          object,       \* ... and what was found under its name
          kept, seen, reported, refused,    \* ghosts, see Listing
          changes       \* bound: changes by others so far

server == <<dots, directory>>
local == <<pc, status, lastOffset, todo, entry, object>>
ghosts == <<kept, seen, reported, refused>>
vars == <<server, local, ghosts, changes>>

Pairs(entries) == {<<e.name, e.object>> : e \in entries}

NoEntry == [offset |-> 0, name |-> ".", object |-> Self]

Init ==
    /\ \E a, b \in 1 .. MaxOffset :
          /\ a < b
          /\ dots = {[offset |-> a, name |-> ".", object |-> Self],
                     [offset |-> b, name |-> "..", object |-> Self]}
    /\ \E names \in SUBSET Name : \E at \in [names -> (1 .. MaxOffset) \X Object] :
          directory = {[offset |-> at[n][1], name |-> n, object |-> at[n][2]] : n \in names}
    /\ Directory(directory \cup dots)
    /\ pc = "idle" /\ status = "none" /\ lastOffset = 0 /\ todo = {}
    /\ entry = NoEntry /\ object = Self
    /\ kept = {} /\ seen = {} /\ reported = {} /\ refused = {}
    /\ changes = 0

----------------------------------------------------------------------------
(* The callback.                                                           *)

Returns(s) == pc' = "return" /\ status' = s

FindFiles(isDirectory, hasFileId) ==
    /\ pc = "idle"
    /\ IF ~isDirectory THEN Returns("NOT_A_DIRECTORY")
       ELSE IF ~hasFileId THEN Returns("INVALID_HANDLE")
       ELSE pc' = "readDirectory" /\ status' = "SUCCESS"
    /\ lastOffset' = 0 /\ todo' = {} /\ entry' = NoEntry /\ object' = Self
    /\ kept' = directory /\ seen' = Pairs(directory) /\ reported' = {} /\ refused' = {}
    /\ UNCHANGED <<server, changes>>

(* A reply holds the entries beyond the offset up to some entry, which the *)
(* server chooses, and is empty only when there are none.                  *)
Replies(offset) ==
    LET beyond == {e \in directory \cup dots : e.offset > offset}
    IN  {{e \in beyond : e.offset <= g.offset} : g \in beyond}
          \cup (IF beyond = {} THEN {{}} ELSE {})

Fails(error) == Returns(ToNtStatus(error)) /\ lastOffset' = 0 /\ UNCHANGED todo

(* Fault: the offset is not reset before the reply.                        *)
ReadDirectoryKeepsOffset ==
    /\ pc = "readDirectory"
    /\ \/ \E error \in ErrorCodes : Fails(error)
       \/ /\ \E reply \in Replies(lastOffset) : todo' = reply
          /\ pc' = "entries" /\ UNCHANGED <<status, lastOffset>>
    /\ UNCHANGED <<server, entry, object, ghosts, changes>>

ReadDirectory ==
    /\ pc = "readDirectory"
    /\ \/ \E error \in ErrorCodes : Fails(error)
       \/ /\ \E reply \in Replies(lastOffset) : todo' = reply
          /\ lastOffset' = 0
          /\ pc' = "entries" /\ UNCHANGED status
    /\ UNCHANGED <<server, entry, object, ghosts, changes>>

(* The entries of a reply are handled in order.                            *)
First == {e \in todo : \A g \in todo : e.offset <= g.offset}

(* Fault: the offset of a dot entry is not remembered.                     *)
SkipDotsForgetsOffset(e) ==
    /\ pc = "entries" /\ e.name \in Dots
    /\ todo' = todo \ {e}
    /\ UNCHANGED <<server, pc, status, lastOffset, entry, object, ghosts, changes>>

SkipDots(e) ==
    /\ pc = "entries" /\ e.name \in Dots
    /\ todo' = todo \ {e} /\ lastOffset' = e.offset
    /\ UNCHANGED <<server, pc, status, entry, object, ghosts, changes>>

(* Fault: an entry whose walk fails is tried again.                        *)
SimpleWalkRetries(e) ==
    LET found == {f \in directory : f.name = e.name}
    IN  /\ pc = "entries" /\ e.name \notin Dots
        /\ lastOffset' = e.offset
        /\ \/ /\ \E f \in found : pc' = "attributes" /\ entry' = e /\ object' = f.object
              /\ todo' = todo \ {e}
           \/ found = {} /\ UNCHANGED <<pc, entry, object, todo>>
        /\ UNCHANGED <<server, status, ghosts, changes>>

(* An entry whose walk fails is left out.                                  *)
SimpleWalk(e) ==
    LET found == {f \in directory : f.name = e.name}
    IN  /\ pc = "entries" /\ e.name \notin Dots
        /\ todo' = todo \ {e} /\ lastOffset' = e.offset
        /\ \/ /\ \E f \in found : pc' = "attributes" /\ entry' = e /\ object' = f.object
              /\ UNCHANGED refused
           \/ found = {} /\ UNCHANGED <<pc, entry, object, refused>>
           \/ /\ ErrorCodes # {} /\ refused' = refused \cup {e.name}
              /\ UNCHANGED <<pc, entry, object>>
        /\ UNCHANGED <<server, status, kept, seen, reported, changes>>

(* Fault: the handle's own file ID is asked for the attributes.            *)
GetAttributesOfDirectory ==
    /\ pc = "attributes"
    /\ pc' = "entries" /\ entry' = NoEntry /\ object' = Self
    /\ reported' = reported \cup {<<entry.name, Self>>}
    /\ UNCHANGED <<server, status, lastOffset, todo, kept, seen, refused, changes>>

(* Whether it fails or the caller is told, with FillFindData, the entry is *)
(* clunked and the next one follows.  What was removed meanwhile may still *)
(* have its attributes.                                                    *)
GetAttributes ==
    /\ pc = "attributes"
    /\ pc' = "entries" /\ entry' = NoEntry /\ object' = Self
    /\ \/ reported' = reported \cup {<<entry.name, object>>} /\ UNCHANGED refused
       \/ (\A e \in directory : e.object # object) /\ UNCHANGED <<reported, refused>>
       \/ /\ ErrorCodes # {} /\ refused' = refused \cup {entry.name}
          /\ UNCHANGED reported
    /\ UNCHANGED <<server, status, lastOffset, todo, kept, seen, changes>>

(* while (LastOffset)                                                      *)
NextReply ==
    /\ pc = "entries" /\ todo = {}
    /\ pc' = IF lastOffset # 0 THEN "readDirectory" ELSE "return"
    /\ UNCHANGED <<server, status, lastOffset, todo, entry, object, ghosts, changes>>

Return ==
    /\ pc = "return" /\ pc' = "idle"
    /\ UNCHANGED <<server, status, lastOffset, todo, entry, object, ghosts, changes>>

----------------------------------------------------------------------------
(* Other clients.                                                          *)

Become(entries) ==
    /\ changes < MaxChanges /\ changes' = changes + 1
    /\ Directory(entries \cup dots)
    /\ directory' = entries
    /\ kept' = kept \cap entries /\ seen' = seen \cup Pairs(entries)
    /\ UNCHANGED <<dots, local, reported, refused>>

Create(e) == e \notin directory /\ Become(directory \cup {e})
Remove(e) == e \in directory /\ Become(directory \ {e})

(* A rename within the directory may replace another entry, and may put    *)
(* the object at any free offset.                                          *)
Rename(e, g) ==
    /\ e \in directory /\ g.object = e.object /\ g.name # e.name
    /\ Become({f \in directory : f # e /\ f.name # g.name} \cup {g})

Others == \E e \in Entry : Create(e) \/ Remove(e) \/ \E g \in Entry : Rename(e, g)

Step ==
    \/ ReadDirectory \/ GetAttributes \/ NextReply \/ Return
    \/ \E e \in First : SkipDots(e) \/ SimpleWalk(e)

Next ==
    \/ \E isDirectory, hasFileId \in BOOLEAN : FindFiles(isDirectory, hasFileId)
    \/ Step \/ Others

Spec == Init /\ [][Next]_vars

(* The server answers and the thread runs.                                 *)
FairSpec == Spec /\ WF_vars(Step)

----------------------------------------------------------------------------

TypeOK ==
    /\ Directory(directory \cup dots) /\ directory \subseteq Entry
    /\ pc \in {"idle", "readDirectory", "entries", "attributes", "return"}
    /\ lastOffset \in 0 .. MaxOffset
    /\ \A e \in todo : e \in Entry \/ e \in dots
    /\ \A e \in todo : e.offset > lastOffset
    /\ kept \subseteq directory /\ Pairs(kept) \subseteq seen
    /\ changes \in 0 .. MaxChanges

(* FindFiles is a listing: it reports under a name only what had that name *)
(* at some time during the call, never the dot entries, nothing that       *)
(* stayed twice; and it does not end in success, whatever the sizes of the *)
(* replies and the changes between them, without what stayed.              *)
listingSucceeded == status = "SUCCESS" /\ pc = "idle"
Promised == INSTANCE Listing WITH listing <- pc # "idle", succeeded <- listingSucceeded
ImplementsListing == Promised!Spec

(* A listing ends, if the server answers: no reply leads back to an offset *)
(* that was already asked for.                                             *)
FindFilesReturns == pc = "readDirectory" ~> pc = "return"

=============================================================================
