------------------------------ MODULE MCVolume ------------------------------
(***************************************************************************)
(* TLC's instances of Volume: a name at the root and, below it if it is a  *)
(* directory, another one.                                                 *)
(***************************************************************************)
EXTENDS Volume, TLC

CONSTANTS t1, t2, h1, h2

MCPath == {<<"a">>, <<"a", "b">>}
MCPathAndRoot == MCPath \cup {<< >>}

(* Nothing but the root; a directory "a"; a file "a", which only some may  *)
(* write.                                                                  *)
DirectoryA == Object("directory", Root, "a")
FileA(writable) ==
    [Object("file", Root, "a") EXCEPT !.empty = FALSE, !.writable = writable]

MCTrees == {<<RootObject>>, <<RootObject, DirectoryA>>}
            \cup {<<RootObject, FileA(w)>> : w \in BOOLEAN}

(* Two of them, for the runs with two threads.                             *)
MCFewTrees == {<<RootObject>>, <<RootObject, DirectoryA>>}

ThreadSymmetry == Permutations({t1, t2})
ThreadAndHandleSymmetry == ThreadSymmetry \cup Permutations({h1, h2})

============================================================================
