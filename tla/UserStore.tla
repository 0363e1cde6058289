------------------------------ MODULE UserStore ------------------------------
(***************************************************************************)
(* The users of the driver monitoring (dmm/dmm.cpp, DMM_GetUserList and    *)
(* the operations that use it).  A user is a directory with a file         *)
(* "username"; there is no other record and no lock.  Users are added by   *)
(* threads made for one request each, which run side by side               *)
(* (alg.cpp:1392), and deleted and renamed by the thread that receives     *)
(* messages.  Every operation lists the directories once and acts on what  *)
(* it saw then.                                                            *)
(*                                                                         *)
(* A request comes in and lists in one step; each change of the file       *)
(* system is a step: mkdir; the shell's ">" makes the file empty; echo     *)
(* writes it; rm removes the file; rm removes the directory.  A request    *)
(* that is refused (name exists, name unknown, no free number, name too    *)
(* long) changes nothing and is left out.  Faces are left to DmmRun.       *)
(* Nothing keeps two requests from concerning the same name.               *)
(***************************************************************************)
EXTENDS Integers, FiniteSets

CONSTANTS
  Names,       \* user names
  Adders,      \* threads made for one callbackAddUser each
  rx,          \* the thread that receives messages
  Max,         \* DMM_MAX_FR_NUM: user numbers are 0 .. Max - 1
  Radix,       \* 10: one number of two digits sorts with ten of three
  OldNumbers,  \* numbers of the directories that an earlier version left
  none

Threads == Adders \cup {rx}

\* user%03d and, from an earlier version, user%02d.
NewDirs == {"new"} \X (0 .. Max - 1)
Dirs == NewDirs \cup ({"old"} \X OldNumbers)
Number(d) == d[2]

ASSUME UserStoreAssumption ==
  /\ Max \in Nat \ {0}
  /\ Radix \in Nat \ {0}
  /\ OldNumbers \subseteq 0 .. Max - 1
  /\ rx \notin Adders
  /\ none \notin Names \cup Dirs
  /\ Names \cap {"absent", "bare", "empty"} = {}

VARIABLES
  dir,    \* each directory: absent, bare (no username), empty (nothing in it), or a name
  pc,     \* where each request stands
  req,    \* the names it concerns
  write,  \* the name it has still to write
  at,     \* the directory it works on, as long as it does
  todo,   \* the directories it has still to remove
  astray  \* history: a request under way may work on a directory not its own

vars == <<dir, pc, req, write, at, todo, astray>>

NoFile == {"absent", "bare"}

\* The same value for every thread.
All(value) == [t \in Threads |-> value]

Init ==
  /\ dir \in [Dirs -> {"absent"} \cup Names]
  /\ \A d \in NewDirs : dir[d] = "absent"
  /\ pc = All("idle")
  /\ req = All({})
  /\ write = All(none)
  /\ at = All(none)
  /\ todo = All({})
  /\ astray = FALSE

-----------------------------------------------------------------------------
(***************************************************************************)
(* DMM_GetUserList.                                                        *)
(***************************************************************************)

\* scandir, and the directories whose username can be opened.
Listed == {d \in Dirs : dir[d] \notin NoFile}

\* The order of alphasort: user00 < user000 < ... < user009 < user01 < user010.
Key(d) == IF d \in NewDirs THEN 2 * Number(d) + 1 ELSE 2 * Radix * Number(d)

\* The index of a directory in the list.
Position(d) == Cardinality({e \in Listed : Key(e) < Key(d)})

First(ds) == CHOOSE d \in ds : \A e \in ds : Key(d) <= Key(e)
Last(ds) == CHOOSE d \in ds : \A e \in ds : Key(e) <= Key(d)

Named(ds) == {d \in ds : dir[d] \in Names}

\* Nothing is read from an empty file, and szUserName keeps the name of the
\* directory before it, or whatever the stack held.
Shown(d, residue) ==
  LET before == Named({e \in Listed : Key(e) <= Key(d)})
  IN  IF before = {} THEN residue ELSE dir[Last(before)]

\* The directories listed with a name; every operation takes the first.
Matches(n, residue) == {d \in Listed : Shown(d, residue) = n}

\* One of the directories found has an empty file and no name before it.
Guessed(ds) == \E d \in ds : Named({e \in Listed : Key(e) <= Key(d)}) = {}

\* What an uninitialised buffer may hold: the rest of an earlier list, or no
\* name.
Residue == Names \cup {none}

-----------------------------------------------------------------------------
(***************************************************************************)
(* DMM_RegisterUser and callbackAddUser.                                   *)
(***************************************************************************)

\* Mutant: the scan starts at the second entry of the list.
FreeAtSkipFirst(i) == i > 0 /\ ~\E d \in Listed : Position(d) = i /\ Number(d) = i

\* Entry i of the list is not number i.
FreeAt(i) == ~\E d \in Listed : Position(d) = i /\ Number(d) = i

\* Mutant: one number too many.
NumbersOneMore == 0 .. Max

Numbers == 0 .. Max - 1

\* The number that DMM_RegisterUser takes for free.
Pick == CHOOSE i \in Numbers : FreeAt(i) /\ \A j \in 0 .. i - 1 : ~FreeAt(j)

\* A request lists on behalf of the names ns and is going to work on the
\* directories ds.  It goes astray when another request under way concerns one
\* of the names, or when its list took what an uninitialised buffer held for a
\* name.  That is over when no request is left that has overlapped with it.
Concerns(t, ns, ds) ==
  /\ req' = [req EXCEPT ![t] = ns]
  /\ astray' = \/ astray /\ \E u \in Threads : pc[u] # "idle"
               \/ \E u \in Threads \ {t} : req[u] \cap ns # {}
               \/ Guessed(ds)

Add(t, n, residue) ==
  /\ pc[t] = "idle"
  /\ Concerns(t, {n}, {})
  /\ Matches(n, residue) = {}
  /\ \E i \in Numbers : FreeAt(i)
  /\ at' = [at EXCEPT ![t] = <<"new", Pick>>]
  /\ write' = [write EXCEPT ![t] = n]
  /\ pc' = [pc EXCEPT ![t] = "mkdir"]
  /\ UNCHANGED <<dir, todo>>

\* The request of t is answered, or given up.
End(t) ==
  /\ pc' = [pc EXCEPT ![t] = "idle"]
  /\ req' = [req EXCEPT ![t] = {}]
  /\ write' = [write EXCEPT ![t] = none]
  /\ at' = [at EXCEPT ![t] = none]
  /\ todo' = [todo EXCEPT ![t] = {}]
  /\ UNCHANGED <<astray>>

\* Mutant: mkdir's failure is ignored.
MkdirAnyway(t) ==
  /\ pc[t] = "mkdir"
  /\ dir' = [dir EXCEPT ![at[t]] = IF @ = "absent" THEN "bare" ELSE @]
  /\ pc' = [pc EXCEPT ![t] = "open"]
  /\ UNCHANGED <<req, write, at, todo, astray>>

\* mkdir fails on a directory that exists, and the request with it.
Mkdir(t) ==
  /\ pc[t] = "mkdir"
  /\ \/ /\ dir[at[t]] = "absent"
        /\ dir' = [dir EXCEPT ![at[t]] = "bare"]
        /\ pc' = [pc EXCEPT ![t] = "open"]
        /\ UNCHANGED <<req, write, at, todo, astray>>
     \/ /\ dir[at[t]] # "absent"
        /\ End(t)
        /\ UNCHANGED dir

\* The shell opens the username file: it is there and empty.
Open(t) ==
  /\ pc[t] = "open"
  /\ \/ /\ dir[at[t]] # "absent"
        /\ dir' = [dir EXCEPT ![at[t]] = "empty"]
        /\ pc' = [pc EXCEPT ![t] = "write"]
        /\ UNCHANGED <<req, write, at, todo, astray>>
     \/ /\ dir[at[t]] = "absent"
        /\ End(t)
        /\ UNCHANGED dir

\* echo writes the name, into a file that may have been removed meanwhile.
\* AddUser goes on to wait for the face; a rename is done; either may be told
\* that the command failed, although it did not.
Echo(t) ==
  /\ pc[t] = "write"
  /\ dir' = IF at[t] = none THEN dir ELSE [dir EXCEPT ![at[t]] = write[t]]
  /\ \/ End(t)
     \/ /\ t \in Adders
        /\ pc' = [pc EXCEPT ![t] = "poll"]
        /\ write' = [write EXCEPT ![t] = none]
        /\ at' = [at EXCEPT ![t] = none]
        /\ UNCHANGED <<req, todo, astray>>

-----------------------------------------------------------------------------
(***************************************************************************)
(* DMM_DeleteUser, DMM_DeleteUserBatch, DMM_ModifyUser.                    *)
(***************************************************************************)

\* The listed directories of the names of a request: one for each name found.
Found(ns, residue) ==
  {First(Matches(n, residue)) : n \in {m \in ns : Matches(m, residue) # {}}}

\* List, and have the directories of ns to remove.  DMM_DeleteUser is the
\* case of one name.
Look(t, ns, residue) ==
  LET found == Found(ns, residue) IN
  /\ found # {}
  /\ Concerns(t, ns, found)
  /\ todo' = [todo EXCEPT ![t] = found]
  /\ pc' = [pc EXCEPT ![t] = "rm"]
  /\ UNCHANGED <<dir, write, at>>

Delete(ns, residue) == pc[rx] = "idle" /\ Look(rx, ns, residue)

\* callbackAddUser: the face is stored and the answer is success ...
Registered(t) ==
  /\ pc[t] = "poll"
  /\ End(t)
  /\ UNCHANGED dir

\* ... or it is not, in time, and the user is deleted again, if found.
Withdraw(t, residue) ==
  /\ pc[t] = "poll"
  /\ \/ Look(t, req[t], residue)
     \/ Found(req[t], residue) = {} /\ End(t) /\ UNCHANGED dir

\* rm removes the username file; who is writing it writes into nothing.
RmFile(t, d) ==
  /\ pc[t] = "rm"
  /\ d \in todo[t]
  /\ dir' = [dir EXCEPT ![d] = IF @ = "absent" THEN @ ELSE "bare"]
  /\ at' = [u \in Threads |->
       IF u = t THEN d ELSE IF pc[u] = "write" /\ at[u] = d THEN none ELSE at[u]]
  /\ pc' = [pc EXCEPT ![t] = "rmdir"]
  /\ UNCHANGED <<req, write, todo, astray>>

\* rm removes the directory, unless there is a file in it again, which ends
\* the request with an error.
RmDir(t) ==
  /\ pc[t] = "rmdir"
  /\ \/ /\ dir[at[t]] \in NoFile
        /\ dir' = [dir EXCEPT ![at[t]] = "absent"]
        /\ todo[t] # {at[t]}
        /\ todo' = [todo EXCEPT ![t] = @ \ {at[t]}]
        /\ pc' = [pc EXCEPT ![t] = "rm"]
        /\ at' = [at EXCEPT ![t] = none]
        /\ UNCHANGED <<req, write, astray>>
     \/ /\ dir[at[t]] \in NoFile
        /\ dir' = [dir EXCEPT ![at[t]] = "absent"]
        /\ todo[t] = {at[t]}
        /\ End(t)
     \/ /\ dir[at[t]] \notin NoFile
        /\ End(t)
        /\ UNCHANGED dir

\* The new name is not compared with the names there are.
Modify(from, to, residue) ==
  /\ from # to
  /\ pc[rx] = "idle"
  /\ Matches(from, residue) # {}
  /\ LET d == First(Matches(from, residue)) IN
       /\ Concerns(rx, {from, to}, {d})
       /\ at' = [at EXCEPT ![rx] = d]
  /\ write' = [write EXCEPT ![rx] = to]
  /\ pc' = [pc EXCEPT ![rx] = "open"]
  /\ UNCHANGED <<dir, todo>>

-----------------------------------------------------------------------------
(***************************************************************************)
(* What may happen at any time.                                            *)
(***************************************************************************)

\* A command fails (no space, no process): the request ends where it is, and
\* nothing is undone.
Fail(t) ==
  /\ pc[t] \in {"mkdir", "open", "write", "rm", "rmdir"}
  /\ End(t)
  /\ UNCHANGED dir

\* The process is killed, or the power fails: only the directories are left.
Kill ==
  /\ \E t \in Threads : pc[t] # "idle"
  /\ pc' = All("idle")
  /\ req' = All({})
  /\ write' = All(none)
  /\ at' = All(none)
  /\ todo' = All({})
  /\ astray' = FALSE
  /\ UNCHANGED dir

Step(t) ==
  \/ Mkdir(t) \/ Open(t) \/ Echo(t) \/ Registered(t)
  \/ \E residue \in Residue : Withdraw(t, residue)
  \/ \E d \in Dirs : RmFile(t, d)
  \/ RmDir(t)
  \/ Fail(t)

Next ==
  \/ \E t \in Adders, n \in Names, residue \in Residue : Add(t, n, residue)
  \/ \E ns \in SUBSET Names, residue \in Residue : Delete(ns, residue)
  \/ \E from, to \in Names, residue \in Residue : Modify(from, to, residue)
  \/ \E t \in Threads : Step(t)
  \/ Kill

Spec == Init /\ [][Next]_vars

-----------------------------------------------------------------------------
TypeOK ==
  /\ dir \in [Dirs -> NoFile \cup {"empty"} \cup Names]
  /\ pc \in [Threads -> {"idle", "mkdir", "open", "write", "poll", "rm", "rmdir"}]
  /\ req \in [Threads -> SUBSET Names]
  /\ write \in [Threads -> Names \cup {none}]
  /\ at \in [Threads -> Dirs \cup {none}]
  /\ todo \in [Threads -> SUBSET Dirs]
  /\ astray \in BOOLEAN

\* The request that takes a step from this state to the next one.
Acts(t) == <<pc[t], at[t], todo[t], req[t]>>' # <<pc[t], at[t], todo[t], req[t]>>

\* The number that DMM_RegisterUser takes for free (dmm.cpp:3817) is no
\* user's, whatever the other requests, kills and failing commands have left
\* behind: at worst a directory without a username file has it.  An old
\* directory in the list shifts the positions, and the number of a user may
\* then be taken for free.
FreeNumber ==
  [][\A t \in Adders :
       pc[t] = "idle" /\ pc'[t] = "mkdir" /\ Listed \subseteq NewDirs
         => dir[at'[t]] \in NoFile]_vars

\* A stored user is renamed or removed by a request that names it and by no
\* other: not by a registration that chose the same number (dmm.cpp:3822), not
\* by the withdrawal of one that failed (alg.cpp:383), not by what a kill cut
\* short.  There is no lock, and two cases are excepted, until the requests
\* involved and those they overlap with are over: a list took what was left in
\* szUserName for the name of the first directory, whose file was empty
\* (dmm.cpp:4029); requests for the same name overlap, and one removes a
\* directory that is no longer the one it listed (alg.cpp:1392).
Durable ==
  [][\A d \in Dirs : ~astray /\ dir[d] \in Names /\ dir'[d] # dir[d] =>
       \E t \in Threads : Acts(t) /\ dir[d] \in req[t]]_vars

=============================================================================
