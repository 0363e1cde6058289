-------------------------- MODULE UserStoreProofs --------------------------
(***************************************************************************)
(* Proofs about UserStore, for any names, numbers of users, requests under *)
(* way and directories of the earlier version.  There is no lock: what     *)
(* keeps requests apart, as long as none goes astray, is that they concern *)
(* different names, and that a directory is somebody's from the mkdir or   *)
(* the list that found it on.                                              *)
(* At the end: DmmRun, the requests that register a face for such a user.  *)
(***************************************************************************)
EXTENDS UserStore, FiniteSetTheorems, FunctionTheorems, WellFoundedInduction, TLAPS

\* No two requests concern the same name.
Apart == \A t, u \in Threads : t # u => req[t] \cap req[u] = {}

\* What a request writes is a name it concerns.
Writes == \A t \in Threads : pc[t] \in {"mkdir", "open", "write"} => write[t] \in req[t]

\* A directory to be made, opened or removed is one, and a thread without a
\* request concerns no name.
Places ==
  \A t \in Threads :
    /\ pc[t] = "idle" => req[t] = {}
    /\ pc[t] \in {"mkdir", "open"} => at[t] \in Dirs
    /\ pc[t] = "rmdir" => at[t] \in todo[t]
    /\ pc[t] \notin {"rm", "rmdir"} => todo[t] = {}

\* The directories that a request is changing: it made or found them.
Holds(t) ==
  {d \in Dirs : d \in todo[t] \/ (pc[t] \in {"open", "write"} /\ at[t] = d)}

\* A directory is held by one request, and is not one of a user whom this
\* request does not concern.
Owned ==
  \A t \in Threads : \A d \in Holds(t) :
    /\ dir[d] \in req[t] \cup {"bare", "empty"}
    /\ \A u \in Threads : u # t => d \notin Holds(u)

IInv == TypeOK /\ Writes /\ Places /\ (~astray => Apart /\ Owned)

-----------------------------------------------------------------------------
(***************************************************************************)
(* The order of the list.                                                  *)
(***************************************************************************)
LEMMA LeastNumber ==
  ASSUME NEW S, S \subseteq Nat, S # {}
  PROVE  \E m \in S : \A n \in S : m <= n
<1>1. \E m \in S : \A n \in S : ~(<<n, m>> \in OpToRel(<, Nat))
  BY NatLessThanWellFounded, WFMin, Zenon
<1>2. PICK m \in S : \A n \in S : ~(<<n, m>> \in OpToRel(<, Nat))
  BY <1>1, Zenon
<1>3. \A n \in S : ~(n < m)
  BY <1>2 DEF OpToRel
<1> QED BY <1>3

LEMMA Products ==
  ASSUME NEW i \in Nat, NEW j \in Nat
  PROVE  /\ Radix * i \in Nat
         /\ i # j => Radix * i # Radix * j
BY UserStoreAssumption

LEMMA DirParts ==
  ASSUME NEW d \in Dirs
  PROVE  /\ Number(d) \in Nat
         /\ d \in NewDirs => d = <<"new", Number(d)>> /\ Number(d) \in 0 .. Max - 1
         /\ d \notin NewDirs => d = <<"old", Number(d)>>
<1>1. CASE d \in NewDirs
  BY <1>1, UserStoreAssumption DEF NewDirs, Number
<1>2. CASE d \notin NewDirs
  <2>1. d \in {"old"} \X OldNumbers
    BY <1>2 DEF Dirs
  <2>2. d = <<"old", d[2]>> /\ d[2] \in OldNumbers
    BY <2>1
  <2>3. \A n \in OldNumbers : n \in Nat
    BY UserStoreAssumption
  <2> QED BY <1>2, <2>2, <2>3, Zenon DEF Number
<1> QED BY <1>1, <1>2

\* alphasort never finds two directories equal.
LEMMA KeyInjective ==
  ASSUME NEW d \in Dirs, NEW e \in Dirs
  PROVE  /\ Key(d) \in Nat
         /\ Key(d) = Key(e) => d = e
<1> DEFINE i == Number(d)
           j == Number(e)
<1>1. i \in Nat /\ j \in Nat
  BY DirParts
<1>2. /\ d \in NewDirs => d = <<"new", i>>
      /\ d \notin NewDirs => d = <<"old", i>>
      /\ e \in NewDirs => e = <<"new", j>>
      /\ e \notin NewDirs => e = <<"old", j>>
  BY DirParts
<1>3. PICK x \in Nat, y \in Nat : x = Radix * i /\ y = Radix * j /\ (i # j => x # y)
  BY <1>1, Products
<1>4. 2 * Radix * i = 2 * x /\ 2 * Radix * j = 2 * y
  BY <1>1, <1>3, UserStoreAssumption
<1>5. Key(d) = IF d \in NewDirs THEN 2 * i + 1 ELSE 2 * x
  BY <1>4 DEF Key
<1>6. Key(e) = IF e \in NewDirs THEN 2 * j + 1 ELSE 2 * y
  BY <1>4 DEF Key
<1>7. 2 * i + 1 # 2 * y /\ 2 * j + 1 # 2 * x
  BY <1>1, <1>3
<1> HIDE DEF i, j
<1> QED BY <1>1, <1>2, <1>3, <1>5, <1>6, <1>7

\* The first and the last of some directories are among them.
LEMMA FirstOf ==
  ASSUME NEW ds, ds \subseteq Dirs, ds # {}
  PROVE  First(ds) \in ds /\ \A e \in ds : Key(First(ds)) <= Key(e)
<1>1. {Key(d) : d \in ds} \subseteq Nat /\ {Key(d) : d \in ds} # {}
  BY KeyInjective
<1>2. PICK m \in {Key(d) : d \in ds} : \A n \in {Key(d) : d \in ds} : m <= n
  BY <1>1, LeastNumber
<1>3. \E d \in ds : \A e \in ds : Key(d) <= Key(e)
  BY <1>2
<1> QED BY <1>3 DEF First

LEMMA LastOf ==
  ASSUME NEW ds, ds \subseteq Dirs, ds # {}, NEW b \in Dirs, \A e \in ds : Key(e) <= Key(b)
  PROVE  Last(ds) \in ds /\ \A e \in ds : Key(e) <= Key(Last(ds))
<1> DEFINE gaps == {Key(b) - Key(d) : d \in ds}
<1>1. gaps \subseteq Nat /\ gaps # {}
  <2>1. \A d \in ds : Key(d) \in Nat /\ Key(b) \in Nat
    BY KeyInjective
  <2> QED BY <2>1
<1>2. PICK m \in gaps : \A n \in gaps : m <= n
  <2> HIDE DEF gaps
  <2> QED BY <1>1, LeastNumber
<1>3. PICK d \in ds : m = Key(b) - Key(d)
  BY <1>2
<1>4. ASSUME NEW e \in ds PROVE Key(e) <= Key(d)
  <2>1. Key(e) \in Nat /\ Key(d) \in Nat /\ Key(b) \in Nat
    BY KeyInjective
  <2>2. Key(b) - Key(d) <= Key(b) - Key(e)
    BY <1>2, <1>3
  <2> QED BY <2>1, <2>2
<1>5. \E x \in ds : \A e \in ds : Key(e) <= Key(x)
  BY <1>4
<1> QED BY <1>5 DEF Last

LEMMA MatchesDirs ==
  ASSUME NEW n, NEW residue
  PROVE  Matches(n, residue) \subseteq Dirs /\ Matches(n, residue) \subseteq Listed
BY DEF Matches, Listed

\* A directory with a name is listed with this name.
LEMMA ShownNamed ==
  ASSUME NEW d \in Dirs, dir[d] \in Names, NEW residue
  PROVE  d \in Listed /\ Shown(d, residue) = dir[d]
<1> DEFINE before == Named({e \in Listed : Key(e) <= Key(d)})
<1>1. d \in Listed
  BY UserStoreAssumption DEF Listed, NoFile
<1>2. d \in before /\ before \subseteq Dirs /\ \A e \in before : Key(e) <= Key(d)
  BY <1>1, KeyInjective DEF Named, Listed
<1> HIDE DEF before
<1>3. Last(before) \in before /\ \A e \in before : Key(e) <= Key(Last(before))
  BY <1>2, LastOf
<1>4. Last(before) \in Dirs
  BY <1>2, <1>3
<1>5. Key(Last(before)) = Key(d)
  BY <1>2, <1>3, <1>4, KeyInjective
<1>6. Last(before) = d
  BY <1>4, <1>5, KeyInjective
<1>7. Shown(d, residue) = IF before = {} THEN residue ELSE dir[Last(before)]
  BY DEF Shown, before
<1> QED BY <1>1, <1>2, <1>6, <1>7

\* The first directory listed with a name has it, unless its own file is empty
\* and no directory before it has a name: one that is listed with the name of
\* another comes after that one.
LEMMA FirstMatch ==
  ASSUME NEW n \in Names, NEW residue, Matches(n, residue) # {}
  PROVE  LET d == First(Matches(n, residue))
         IN  d \in Dirs /\ (dir[d] = n \/ Guessed({d}))
<1> DEFINE d == First(Matches(n, residue))
           before == Named({e \in Listed : Key(e) <= Key(d)})
<1>1. d \in Matches(n, residue) /\ \A e \in Matches(n, residue) : Key(d) <= Key(e)
  BY MatchesDirs, FirstOf
<1>2. d \in Dirs /\ d \in Listed /\ Shown(d, residue) = n
  BY <1>1 DEF Matches, Listed
<1>3. before \subseteq Dirs /\ \A e \in before : Key(e) <= Key(d) /\ dir[e] \in Names
  BY DEF Named, Listed
<1>4. Guessed({d}) <=> before = {}
  BY DEF Guessed
<1>5. Shown(d, residue) = IF before = {} THEN residue ELSE dir[Last(before)]
  BY DEF Shown
<1> HIDE DEF before, d
<1>6. ASSUME before # {} PROVE dir[d] = n
  <2>1. Last(before) \in before
    BY <1>2, <1>3, <1>6, LastOf
  <2>2. PICK e \in before : e = Last(before)
    BY <2>1
  <2>3. e \in Dirs /\ dir[e] = n /\ Key(e) <= Key(d)
    BY <1>2, <1>3, <1>5, <1>6, <2>2
  <2>4. e \in Matches(n, residue)
    BY <1>3, <2>3, ShownNamed DEF Matches
  <2>5. Key(d) = Key(e)
    BY <1>1, <1>2, <2>3, <2>4, KeyInjective
  <2> QED BY <1>2, <2>3, <2>5, KeyInjective
<1> QED BY <1>2, <1>4, <1>6 DEF d

-----------------------------------------------------------------------------
(***************************************************************************)
(* The number that is taken for free.                                      *)
(***************************************************************************)
LEMMA PickFree ==
  ASSUME \E i \in Numbers : FreeAt(i)
  PROVE  Pick \in Numbers /\ FreeAt(Pick) /\ \A j \in 0 .. Pick - 1 : ~FreeAt(j)
<1> DEFINE free == {i \in Numbers : FreeAt(i)}
<1>1. free \subseteq Nat /\ free # {} /\ \A i \in free : i \in Numbers /\ FreeAt(i)
  BY DEF Numbers
<1>2. PICK m \in free : \A n \in free : m <= n
  <2> HIDE DEF free
  <2> QED BY <1>1, LeastNumber
<1>3. \A j \in 0 .. m - 1 : j \in Numbers /\ ~(m <= j)
  BY <1>1, <1>2, UserStoreAssumption DEF Numbers
<1>4. \A j \in 0 .. m - 1 : ~FreeAt(j)
  BY <1>2, <1>3
<1>5. m \in Numbers /\ FreeAt(m)
  BY <1>1, <1>2
<1> QED BY <1>4, <1>5 DEF Pick

\* Without old directories in the list the number found has no user: all
\* numbers below it are at their places, so that its user would be at its own.
LEMMA PickIsFree ==
  ASSUME Listed \subseteq NewDirs, \E i \in Numbers : FreeAt(i)
  PROVE  <<"new", Pick>> \notin Listed
<1> SUFFICES ASSUME <<"new", Pick>> \in Listed PROVE FALSE
  OBVIOUS
<1>1. PICK p \in Numbers : p = Pick
  BY PickFree
<1>2. p \in Nat /\ FreeAt(p) /\ (\A j \in 0 .. p - 1 : ~FreeAt(j)) /\ <<"new", p>> \in Listed
  BY <1>1, PickFree DEF Numbers
<1> DEFINE d == <<"new", p>>
           below == {e \in Listed : Key(e) < Key(d)}
           f == [j \in 0 .. p - 1 |-> <<"new", j>>]
<1>3. \A e \in Listed : e \in Dirs /\ e = <<"new", Number(e)>> /\ Number(e) \in Nat /\ Key(e) = 2 * Number(e) + 1
  <2> SUFFICES ASSUME NEW e \in Listed
               PROVE  e \in Dirs /\ e = <<"new", Number(e)>> /\ Number(e) \in Nat /\ Key(e) = 2 * Number(e) + 1
    OBVIOUS
  <2>1. e \in Dirs /\ e \in NewDirs
    BY DEF Listed
  <2> QED BY <2>1, DirParts DEF Key
<1>4. Number(d) = p /\ Key(d) = 2 * p + 1
  BY <1>2, <1>3 DEF Number
<1>5. ASSUME NEW j \in 0 .. p - 1 PROVE <<"new", j>> \in below
  <2>1. PICK e \in Listed : Number(e) = j
    BY <1>2 DEF FreeAt
  <2>2. e = <<"new", j>> /\ Key(e) = 2 * j + 1
    BY <1>3, <2>1
  <2> QED BY <1>2, <1>4, <2>1, <2>2
<1>6. ASSUME NEW e \in below PROVE \E j \in 0 .. p - 1 : e = <<"new", j>>
  <2>1. e = <<"new", Number(e)>> /\ Number(e) \in Nat /\ 2 * Number(e) + 1 < 2 * p + 1
    BY <1>3, <1>4
  <2>2. Number(e) \in 0 .. p - 1
    BY <1>2, <2>1
  <2> QED BY <2>1, <2>2
<1>7. f \in Bijection(0 .. p - 1, below)
  <2> HIDE DEF below
  <2>1. f \in Injection(0 .. p - 1, below)
    BY <1>5 DEF Injection, IsInjective
  <2>2. f \in Surjection(0 .. p - 1, below)
    BY <1>5, <1>6 DEF Surjection
  <2> QED BY <2>1, <2>2 DEF Bijection
<1>8. Cardinality(below) = p
  <2>1. IsFiniteSet(0 .. p - 1) /\ Cardinality(0 .. p - 1) = p
    <3>1. PICK q \in Int : q = p - 1
      BY <1>2
    <3>2. IsFiniteSet(0 .. q) /\ Cardinality(0 .. q) = IF 0 > q THEN 0 ELSE q - 0 + 1
      BY FS_Interval
    <3>3. (IF 0 > q THEN 0 ELSE q - 0 + 1) = p
      BY <1>2, <3>1
    <3> QED BY <3>1, <3>2, <3>3
  <2>2. ExistsBijection(0 .. p - 1, below)
    BY <1>7 DEF ExistsBijection
  <2> QED BY <2>1, <2>2, FS_Bijection
<1>9. Position(d) = p
  BY <1>8 DEF Position
<1> QED BY <1>2, <1>4, <1>9 DEF FreeAt

-----------------------------------------------------------------------------
(***************************************************************************)
(* The invariant holds at first and each action keeps it.                  *)
(***************************************************************************)
LEMMA InitIInv == Init => IInv
<1> SUFFICES ASSUME Init PROVE IInv
  OBVIOUS
<1>1. TypeOK
  BY DEF Init, TypeOK, All, NoFile
<1>2. Apart /\ Writes /\ Places
  BY DEF Init, All, Apart, Writes, Places
<1>3. Owned
  BY DEF Init, All, Owned, Holds
<1> QED BY <1>1, <1>2, <1>3 DEF IInv

\* A request ends, whatever it has left undone.
LEMMA EndIInv ==
  ASSUME IInv, NEW t \in Threads, End(t), UNCHANGED dir
  PROVE  IInv'
<1> USE DEF IInv, End
<1>1. TypeOK'
  BY DEF TypeOK
<1>2. Apart => Apart'
  BY DEF TypeOK, Apart
<1>3. Writes'
  BY DEF TypeOK, Writes
<1>4. Places'
  BY DEF TypeOK, Places
<1>5. Owned => Owned'
  <2>1. \A u \in Threads : Holds(u)' = IF u = t THEN {} ELSE Holds(u)
    BY DEF TypeOK, Holds
  <2>2. \A u \in Threads : u # t => req'[u] = req[u]
    BY DEF TypeOK
  <2> QED BY <2>1, <2>2 DEF Owned
<1> QED BY <1>1, <1>2, <1>3, <1>4, <1>5

\* A request that comes in, or lists again, without going astray meets only
\* requests that concern other names and are not astray either.
LEMMA ConcernsAlone ==
  ASSUME IInv, NEW t \in Threads, NEW ns \in SUBSET Names, NEW ds, Concerns(t, ns, ds)
  PROVE  /\ astray' \in BOOLEAN
         /\ ~astray' =>
              /\ Apart /\ Owned /\ ~Guessed(ds)
              /\ \A u \in Threads : u # t => req[u] \cap ns = {}
<1>1. astray' \in BOOLEAN
  BY DEF Concerns
<1>2. ASSUME ~astray' PROVE ~Guessed(ds) /\ \A u \in Threads : u # t => req[u] \cap ns = {}
  BY <1>2 DEF Concerns
<1>3. ASSUME ~astray' PROVE Apart /\ Owned
  <2>1. CASE ~astray
    BY <2>1 DEF IInv
  <2>2. CASE astray
    <3>1. \A u \in Threads : pc[u] = "idle"
      BY <1>3, <2>2 DEF Concerns
    <3>2. \A u \in Threads : req[u] = {} /\ Holds(u) = {}
      BY <3>1 DEF IInv, Places, Holds
    <3> QED BY <3>2 DEF Apart, Owned
  <2> QED BY <2>1, <2>2
<1> QED BY <1>1, <1>2, <1>3

LEMMA AddIInv ==
  ASSUME IInv, NEW t \in Adders, NEW n \in Names, NEW residue, Add(t, n, residue)
  PROVE  IInv'
<1>1. t \in Threads /\ {n} \in SUBSET Names
  BY DEF Threads
<1>2. <<"new", Pick>> \in Dirs
  BY PickFree DEF Add, Dirs, NewDirs, Numbers
<1>3. Concerns(t, {n}, {})
  BY DEF Add
<1>4. /\ astray' \in BOOLEAN
      /\ ~astray' =>
           /\ Apart /\ Owned
           /\ \A u \in Threads : u # t => req[u] \cap {n} = {}
  BY <1>1, <1>3, ConcernsAlone
<1>5. /\ pc[t] = "idle"
      /\ req' = [req EXCEPT ![t] = {n}]
      /\ at' = [at EXCEPT ![t] = <<"new", Pick>>]
      /\ write' = [write EXCEPT ![t] = n]
      /\ pc' = [pc EXCEPT ![t] = "mkdir"]
      /\ UNCHANGED <<dir, todo>>
  BY <1>3 DEF Add, Concerns
<1> USE DEF IInv
<1>6. TypeOK'
  BY <1>1, <1>2, <1>4, <1>5 DEF TypeOK
<1>7. Writes' /\ Places'
  BY <1>1, <1>2, <1>5 DEF TypeOK, Writes, Places
<1>8. ASSUME ~astray' PROVE Apart'
  BY <1>1, <1>4, <1>5, <1>8 DEF TypeOK, Apart
<1>9. ASSUME ~astray' PROVE Owned'
  <2>1. \A u \in Threads : Holds(u)' = Holds(u)
    BY <1>1, <1>5 DEF TypeOK, Holds
  <2>2. \A u \in Threads : u # t => req'[u] = req[u]
    BY <1>1, <1>5 DEF TypeOK
  <2>3. Holds(t) = {}
    BY <1>1, <1>5 DEF Holds, Places
  <2> QED BY <1>1, <1>4, <1>5, <1>9, <2>1, <2>2, <2>3 DEF Owned
<1> QED BY <1>6, <1>7, <1>8, <1>9

\* A step that changes no directory but one that t holds, and this one as
\* Owned allows, disturbs no other request.
LEMMA OwnedKept ==
  ASSUME Owned, NEW t \in Threads, NEW d \in Dirs, d \in Holds(t),
         \A u \in Threads : Holds(u)' \subseteq Holds(u),
         \A u \in Threads : Holds(u)' # {} => req'[u] = req[u],
         \A e \in Dirs : e # d => dir'[e] = dir[e],
         d \in Holds(t)' => dir'[d] \in req[t] \cup {"bare", "empty"}
  PROVE  Owned'
<1> SUFFICES ASSUME NEW u \in Threads, NEW e \in Holds(u)'
             PROVE  /\ dir'[e] \in req'[u] \cup {"bare", "empty"}
                    /\ \A v \in Threads : v # u => e \notin Holds(v)'
  BY DEF Owned
<1>1. e \in Holds(u) /\ e \in Dirs
  BY DEF Holds
<1>2. \A v \in Threads : v # u => e \notin Holds(v)
  BY <1>1 DEF Owned
<1>3. CASE e = d
  BY <1>2, <1>3
<1>4. CASE e # d
  BY <1>1, <1>2, <1>4 DEF Owned
<1> QED BY <1>3, <1>4

LEMMA MkdirIInv ==
  ASSUME IInv, NEW t \in Threads, Mkdir(t)
  PROVE  IInv'
<1>1. CASE dir[at[t]] # "absent"
  BY <1>1, EndIInv DEF Mkdir
<1>2. CASE dir[at[t]] = "absent"
  <2> USE DEF IInv
  <2>1. /\ pc[t] = "mkdir" /\ at[t] \in Dirs
        /\ dir' = [dir EXCEPT ![at[t]] = "bare"]
        /\ pc' = [pc EXCEPT ![t] = "open"]
        /\ UNCHANGED <<req, write, at, todo, astray>>
    BY <1>2 DEF Mkdir, Places
  <2>2. TypeOK'
    BY <2>1 DEF TypeOK, NoFile
  <2>3. Writes' /\ (Apart => Apart')
    BY <2>1 DEF TypeOK, Apart, Writes
  <2>4. Places'
    BY <2>1 DEF TypeOK, Places
  <2>5. ASSUME Owned PROVE Owned'
    <3>1. \A u \in Threads : u # t => Holds(u)' = Holds(u)
      BY <2>1 DEF TypeOK, Holds
    <3>2. Holds(t)' = {at[t]}
      BY <2>1 DEF TypeOK, Holds, Places
    <3>3. \A u \in Threads : at[t] \notin Holds(u)
      BY <1>2, <2>5, UserStoreAssumption DEF Owned, TypeOK
    <3>4. dir'[at[t]] = "bare" /\ \A d \in Dirs : d # at[t] => dir'[d] = dir[d]
      BY <2>1 DEF TypeOK
    <3>5. \A u \in Threads : Holds(u) \subseteq Dirs
      BY DEF Holds
    <3> QED BY <2>1, <2>5, <3>1, <3>2, <3>3, <3>4, <3>5 DEF Owned
  <2> QED BY <2>1, <2>2, <2>3, <2>4, <2>5
<1> QED BY <1>1, <1>2

LEMMA OpenIInv ==
  ASSUME IInv, NEW t \in Threads, Open(t)
  PROVE  IInv'
<1>1. CASE dir[at[t]] = "absent"
  BY <1>1, EndIInv DEF Open
<1>2. CASE dir[at[t]] # "absent"
  <2> USE DEF IInv
  <2>1. /\ pc[t] = "open" /\ at[t] \in Dirs
        /\ dir' = [dir EXCEPT ![at[t]] = "empty"]
        /\ pc' = [pc EXCEPT ![t] = "write"]
        /\ UNCHANGED <<req, write, at, todo, astray>>
    BY <1>2 DEF Open, Places
  <2>2. TypeOK'
    BY <2>1 DEF TypeOK
  <2>3. Writes' /\ (Apart => Apart')
    BY <2>1 DEF TypeOK, Apart, Writes
  <2>4. Places'
    BY <2>1 DEF TypeOK, Places
  <2>5. ASSUME Owned PROVE Owned'
    <3>1. \A u \in Threads : Holds(u)' = Holds(u)
      BY <2>1 DEF TypeOK, Holds
    <3>2. at[t] \in Holds(t)
      BY <2>1 DEF Holds
    <3>3. dir'[at[t]] = "empty" /\ \A d \in Dirs : d # at[t] => dir'[d] = dir[d]
      BY <2>1 DEF TypeOK
    <3> HIDE DEF IInv
    <3> QED BY <2>1, <2>5, <3>1, <3>2, <3>3, OwnedKept
  <2> QED BY <2>1, <2>2, <2>3, <2>4, <2>5
<1> QED BY <1>1, <1>2

LEMMA EchoIInv ==
  ASSUME IInv, NEW t \in Threads, Echo(t)
  PROVE  IInv'
<1> USE DEF IInv
<1>1. /\ pc[t] = "write" /\ todo[t] = {} /\ write[t] \in Names
      /\ todo' = todo /\ astray' = astray
  BY DEF Echo, Writes, Places, TypeOK, End
<1>2. \/ End(t)
      \/ /\ t \in Adders /\ pc' = [pc EXCEPT ![t] = "poll"]
         /\ write' = [write EXCEPT ![t] = none] /\ at' = [at EXCEPT ![t] = none]
         /\ UNCHANGED <<req, todo, astray>>
  BY DEF Echo
<1>3. \A u \in Threads : u # t =>
        pc'[u] = pc[u] /\ req'[u] = req[u] /\ write'[u] = write[u] /\ at'[u] = at[u]
  BY <1>2 DEF End, TypeOK
<1>4. \/ pc'[t] = "idle" /\ req'[t] = {}
      \/ pc'[t] = "poll" /\ req'[t] = req[t]
  BY <1>2 DEF End, TypeOK
<1>5. \A d \in Dirs : dir'[d] = dir[d] \/ (dir'[d] = write[t] /\ d = at[t])
  BY DEF Echo, TypeOK
<1>6. TypeOK'
  <2>1. dir' \in [Dirs -> NoFile \cup {"empty"} \cup Names]
    BY <1>1 DEF Echo, TypeOK
  <2> QED BY <1>2, <2>1 DEF End, TypeOK
<1>7. Apart => Apart'
  BY <1>3, <1>4 DEF Apart
<1>8. Writes'
  BY <1>1, <1>3, <1>4 DEF Writes
<1>9. Places'
  BY <1>1, <1>3, <1>4 DEF Places
<1>10. ASSUME Owned PROVE Owned'
  <2>1. \A u \in Threads : u # t => Holds(u)' = Holds(u)
    BY <1>1, <1>3 DEF Holds
  <2>2. Holds(t)' = {}
    BY <1>1, <1>4 DEF Holds
  <2>3. CASE at[t] \in Dirs
    <3>1. at[t] \in Holds(t)
      BY <1>1, <2>3 DEF Holds
    <3>2. \A e \in Dirs : e # at[t] => dir'[e] = dir[e]
      BY <1>5
    <3> HIDE DEF IInv
    <3> QED BY <1>1, <1>3, <1>10, <2>1, <2>2, <2>3, <3>1, <3>2, OwnedKept
  <2>4. CASE at[t] \notin Dirs
    <3>1. \A u \in Threads : Holds(u) \subseteq Dirs
      BY DEF Holds
    <3>2. \A d \in Dirs : dir'[d] = dir[d]
      BY <1>5, <2>4
    <3> QED BY <1>1, <1>3, <1>10, <2>1, <2>2, <3>1, <3>2 DEF Owned
  <2> QED BY <2>3, <2>4
<1> QED BY <1>1, <1>6, <1>7, <1>8, <1>9, <1>10

LEMMA RmFileIInv ==
  ASSUME IInv, NEW t \in Threads, NEW d \in Dirs, RmFile(t, d)
  PROVE  IInv'
<1> USE DEF IInv
<1>1. /\ pc[t] = "rm" /\ d \in todo[t]
      /\ dir' = [dir EXCEPT ![d] = IF @ = "absent" THEN @ ELSE "bare"]
      /\ pc' = [pc EXCEPT ![t] = "rmdir"]
      /\ UNCHANGED <<req, write, todo, astray>>
  BY DEF RmFile
<1>2. at' = [u \in Threads |->
        IF u = t THEN d ELSE IF pc[u] = "write" /\ at[u] = d THEN none ELSE at[u]]
  BY DEF RmFile
<1>3. \A u \in Threads : u # t =>
        pc'[u] = pc[u] /\ (at'[u] = at[u] \/ (pc[u] = "write" /\ at[u] = d /\ at'[u] = none))
  BY <1>1, <1>2 DEF TypeOK
<1>4. pc'[t] = "rmdir" /\ at'[t] = d
  BY <1>1, <1>2 DEF TypeOK
<1>5. TypeOK'
  BY <1>1, <1>2 DEF TypeOK, NoFile
<1>6. Writes' /\ (Apart => Apart')
  BY <1>1, <1>3, <1>4 DEF Apart, Writes
<1>7. Places'
  BY <1>1, <1>3, <1>4 DEF Places
<1>8. ASSUME Owned PROVE Owned'
  <2>1. d \in Holds(t) /\ Holds(t)' = Holds(t)
    BY <1>1, <1>4 DEF Holds
  <2>2. ASSUME NEW u \in Threads, u # t PROVE Holds(u)' \subseteq Holds(u)
    BY <1>1, <1>3, <2>2, UserStoreAssumption DEF Holds
  <2>3. \A u \in Threads : Holds(u)' \subseteq Holds(u)
    BY <2>1, <2>2
  <2>4. \A e \in Dirs : e # d => dir'[e] = dir[e]
    BY <1>1 DEF TypeOK
  <2>5. dir[d] # "absent"
    BY <1>8, <2>1, UserStoreAssumption DEF Owned, TypeOK
  <2>6. dir'[d] = "bare"
    BY <1>1, <2>5 DEF TypeOK
  <2> HIDE DEF IInv
  <2> QED BY <1>1, <1>8, <2>1, <2>3, <2>4, <2>6, OwnedKept
<1> QED BY <1>1, <1>5, <1>6, <1>7, <1>8

LEMMA RmDirIInv ==
  ASSUME IInv, NEW t \in Threads, RmDir(t)
  PROVE  IInv'
<1>1. CASE dir[at[t]] \notin NoFile
  BY <1>1, EndIInv DEF RmDir
<1>2. CASE dir[at[t]] \in NoFile
  <2> USE DEF IInv
  <2>1. /\ pc[t] = "rmdir" /\ at[t] \in todo[t] /\ at[t] \in Dirs
        /\ dir' = [dir EXCEPT ![at[t]] = "absent"]
        /\ \/ /\ todo' = [todo EXCEPT ![t] = @ \ {at[t]}]
              /\ pc' = [pc EXCEPT ![t] = "rm"]
              /\ at' = [at EXCEPT ![t] = none]
              /\ UNCHANGED <<req, write, astray>>
           \/ End(t)
    BY <1>2 DEF RmDir, Places, TypeOK
  <2>2. \A u \in Threads : u # t =>
          /\ pc'[u] = pc[u] /\ req'[u] = req[u] /\ write'[u] = write[u]
          /\ at'[u] = at[u] /\ todo'[u] = todo[u]
    BY <2>1 DEF End, TypeOK
  <2>3. /\ todo'[t] \subseteq todo[t] \ {at[t]}
        /\ \/ pc'[t] = "rm" /\ req'[t] = req[t]
           \/ pc'[t] = "idle" /\ req'[t] = {} /\ todo'[t] = {}
        /\ astray' = astray
    BY <2>1 DEF End, TypeOK
  <2>4. TypeOK'
    <3>1. dir' \in [Dirs -> NoFile \cup {"empty"} \cup Names]
      BY <2>1 DEF TypeOK, NoFile
    <3> QED BY <2>1, <3>1 DEF End, TypeOK
  <2>5. Apart => Apart'
    BY <2>2, <2>3 DEF Apart
  <2>6. Writes'
    BY <2>2, <2>3 DEF Writes
  <2>7. Places'
    BY <2>2, <2>3 DEF Places
  <2>8. ASSUME Owned PROVE Owned'
    <3>1. at[t] \in Holds(t)
      BY <2>1 DEF Holds
    <3>2. Holds(t)' \subseteq Holds(t) \ {at[t]} /\ (Holds(t)' # {} => req'[t] = req[t])
      BY <2>3 DEF Holds
    <3>3. \A u \in Threads : u # t => Holds(u)' = Holds(u)
      BY <2>2 DEF Holds
    <3>4. \A d \in Dirs : d # at[t] => dir'[d] = dir[d]
      BY <2>1 DEF TypeOK
    <3> HIDE DEF IInv
    <3> QED BY <2>1, <2>2, <2>3, <2>8, <3>1, <3>2, <3>3, <3>4, OwnedKept
  <2> QED BY <2>3, <2>4, <2>5, <2>6, <2>7, <2>8
<1> QED BY <1>1, <1>2

\* A list that took no empty file for a name found directories of the names
\* it was for, which therefore nobody else holds.
LEMMA ListedUnheld ==
  ASSUME Owned, NEW t \in Threads, NEW d \in Dirs, dir[d] \in Names,
         \A u \in Threads : u # t => dir[d] \notin req[u]
  PROVE  \A u \in Threads : u # t => d \notin Holds(u)
BY UserStoreAssumption DEF Owned

\* A request looks for the directories of the names it concerns.
LEMMA LookIInv ==
  ASSUME IInv, NEW t \in Threads, NEW ns \in SUBSET Names, NEW residue,
         pc[t] \in {"idle", "poll"}, Look(t, ns, residue)
  PROVE  IInv'
<1> DEFINE found == Found(ns, residue)
<1>1. Concerns(t, ns, found)
  BY DEF Look
<1>2. /\ todo' = [todo EXCEPT ![t] = found]
      /\ req' = [req EXCEPT ![t] = ns]
      /\ pc' = [pc EXCEPT ![t] = "rm"]
      /\ UNCHANGED <<dir, write, at>>
  BY DEF Look, Concerns
<1>3. \A d \in found : d \in Dirs /\ (dir[d] \in ns \/ Guessed({d}))
  BY FirstMatch DEF Found
<1>4. \A d \in found : Guessed({d}) => Guessed(found)
  BY DEF Guessed
<1> HIDE DEF found
<1>5. /\ astray' \in BOOLEAN
      /\ ~astray' =>
           /\ Apart /\ Owned /\ ~Guessed(found)
           /\ \A u \in Threads : u # t => req[u] \cap ns = {}
  BY <1>1, ConcernsAlone
<1> USE DEF IInv
<1>6. \A u \in Threads : u # t => pc'[u] = pc[u] /\ req'[u] = req[u] /\ todo'[u] = todo[u]
  BY <1>2 DEF TypeOK
<1>7. pc'[t] = "rm" /\ req'[t] = ns /\ todo'[t] = found
  BY <1>2 DEF TypeOK
<1>8. TypeOK'
  BY <1>2, <1>3, <1>5 DEF TypeOK
<1>9. Writes' /\ Places'
  BY <1>2, <1>6, <1>7 DEF Writes, Places
<1>10. ASSUME ~astray' PROVE Apart'
  BY <1>5, <1>6, <1>7, <1>10 DEF Apart
<1>11. ASSUME ~astray' PROVE Owned'
  <2>1. \A d \in found : d \in Dirs /\ dir[d] \in ns
    BY <1>3, <1>4, <1>5, <1>11
  <2>2. Holds(t)' = found
    BY <1>7, <2>1 DEF Holds
  <2>3. \A u \in Threads : u # t => Holds(u)' = Holds(u)
    BY <1>2, <1>6 DEF Holds
  <2>4. \A d \in found : \A u \in Threads : u # t => d \notin Holds(u)
    BY <1>5, <1>11, <2>1, ListedUnheld
  <2> QED BY <1>2, <1>5, <1>6, <1>7, <1>11, <2>1, <2>2, <2>3, <2>4 DEF Owned
<1> QED BY <1>8, <1>9, <1>10, <1>11

LEMMA DeleteIInv ==
  ASSUME IInv, NEW ns \in SUBSET Names, NEW residue, Delete(ns, residue)
  PROVE  IInv'
BY LookIInv DEF Delete, Threads

LEMMA WithdrawIInv ==
  ASSUME IInv, NEW t \in Threads, NEW residue, Withdraw(t, residue)
  PROVE  IInv'
<1>1. CASE Look(t, req[t], residue)
  <2>1. req[t] \in SUBSET Names /\ pc[t] = "poll"
    BY DEF IInv, TypeOK, Withdraw
  <2> QED BY <1>1, <2>1, LookIInv
<1>2. CASE End(t) /\ UNCHANGED dir
  BY <1>2, EndIInv
<1> QED BY <1>1, <1>2 DEF Withdraw

LEMMA ModifyIInv ==
  ASSUME IInv, NEW from \in Names, NEW to \in Names, NEW residue, Modify(from, to, residue)
  PROVE  IInv'
<1> DEFINE d == First(Matches(from, residue))
<1>1. rx \in Threads /\ {from, to} \in SUBSET Names
  BY DEF Threads
<1>2. Concerns(rx, {from, to}, {d})
  BY DEF Modify
<1>3. /\ pc[rx] = "idle"
      /\ req' = [req EXCEPT ![rx] = {from, to}]
      /\ at' = [at EXCEPT ![rx] = d]
      /\ write' = [write EXCEPT ![rx] = to]
      /\ pc' = [pc EXCEPT ![rx] = "open"]
      /\ UNCHANGED <<dir, todo>>
  BY DEF Modify, Concerns
<1>4. d \in Dirs /\ (dir[d] = from \/ Guessed({d}))
  BY FirstMatch DEF Modify
<1> HIDE DEF d
<1>5. /\ astray' \in BOOLEAN
      /\ ~astray' =>
           /\ Apart /\ Owned /\ ~Guessed({d})
           /\ \A u \in Threads : u # rx => req[u] \cap {from, to} = {}
  BY <1>1, <1>2, ConcernsAlone
<1> USE DEF IInv
<1>6. \A u \in Threads : u # rx =>
        pc'[u] = pc[u] /\ req'[u] = req[u] /\ at'[u] = at[u] /\ write'[u] = write[u]
  BY <1>3 DEF TypeOK
<1>7. pc'[rx] = "open" /\ req'[rx] = {from, to} /\ at'[rx] = d /\ write'[rx] = to /\ todo[rx] = {}
  BY <1>1, <1>3 DEF TypeOK, Places
<1>8. TypeOK'
  BY <1>1, <1>3, <1>4, <1>5 DEF TypeOK
<1>9. Writes'
  BY <1>6, <1>7 DEF Writes
<1>10. Places'
  BY <1>3, <1>4, <1>6, <1>7 DEF Places
<1>11. ASSUME ~astray' PROVE Apart'
  BY <1>5, <1>6, <1>7, <1>11 DEF Apart
<1>12. ASSUME ~astray' PROVE Owned'
  <2>1. d \in Dirs /\ dir[d] = from
    BY <1>4, <1>5, <1>12
  <2>2. Holds(rx)' = {d}
    BY <1>3, <1>7, <2>1 DEF Holds
  <2>3. \A u \in Threads : u # rx => Holds(u)' = Holds(u)
    BY <1>3, <1>6 DEF Holds
  <2>4. \A u \in Threads : u # rx => d \notin Holds(u)
    BY <1>1, <1>5, <1>12, <2>1, ListedUnheld
  <2> QED BY <1>3, <1>5, <1>6, <1>7, <1>12, <2>1, <2>2, <2>3, <2>4 DEF Owned
<1> QED BY <1>8, <1>9, <1>10, <1>11, <1>12

LEMMA KillIInv ==
  ASSUME IInv, Kill
  PROVE  IInv'
<1> USE DEF IInv, Kill, All
<1>1. TypeOK'
  BY DEF TypeOK
<1>2. Apart' /\ Writes' /\ Places'
  BY DEF Apart, Writes, Places
<1>3. Owned'
  BY DEF Owned, Holds
<1> QED BY <1>1, <1>2, <1>3

LEMMA NextIInv == IInv /\ [Next]_vars => IInv'
<1> SUFFICES ASSUME IInv, [Next]_vars PROVE IInv'
  OBVIOUS
<1>1. ASSUME NEW t \in Threads, Step(t) PROVE IInv'
  <2>1. CASE Registered(t) \/ Fail(t)
    BY <2>1, EndIInv DEF Registered, Fail
  <2> QED BY <1>1, <2>1, MkdirIInv, OpenIInv, EchoIInv, WithdrawIInv, RmFileIInv, RmDirIInv DEF Step
<1>2. CASE UNCHANGED vars
  BY <1>2 DEF vars, IInv, TypeOK, Apart, Writes, Places, Owned, Holds
<1> QED BY <1>1, <1>2, AddIInv, DeleteIInv, ModifyIInv, KillIInv DEF Next

LEMMA Invariant == Spec => []IInv
BY InitIInv, NextIInv, PTL DEF Spec

-----------------------------------------------------------------------------
\* Every variable keeps its type: in particular a request that makes, opens or
\* removes a directory has one to work on (dmm.cpp:3822, 3852).
THEOREM TypeCorrect == Spec => []TypeOK
<1>1. IInv => TypeOK
  BY DEF IInv
<1> QED BY <1>1, Invariant, PTL

\* Only a registration makes a thread go on to mkdir.
LEMMA StartsAdd ==
  ASSUME IInv, [Next]_vars, NEW t \in Adders, pc[t] = "idle", pc'[t] = "mkdir"
  PROVE  \E n \in Names, residue \in Residue : Add(t, n, residue)
<1>1. t \in Threads /\ t # rx
  BY UserStoreAssumption DEF Threads
<1>2. ASSUME NEW u \in Threads, Step(u) PROVE FALSE
  BY <1>1, <1>2 DEF IInv, TypeOK, Step, Mkdir, Open, Echo, Registered, Withdraw, Look, RmFile, RmDir, Fail, End
<1>3. ASSUME NEW ns \in SUBSET Names, NEW residue, Delete(ns, residue) PROVE FALSE
  BY <1>1, <1>3 DEF IInv, TypeOK, Delete, Look
<1>4. ASSUME NEW from \in Names, NEW to \in Names, NEW residue, Modify(from, to, residue) PROVE FALSE
  BY <1>1, <1>4 DEF IInv, TypeOK, Modify
<1>5. ~Kill
  BY <1>1 DEF Kill, All
<1>6. ASSUME NEW u \in Adders, NEW n \in Names, NEW residue \in Residue, Add(u, n, residue)
      PROVE  u = t
  BY <1>1, <1>6 DEF IInv, TypeOK, Add, Threads
<1>7. ~UNCHANGED vars
  BY DEF vars
<1> QED BY <1>2, <1>3, <1>4, <1>5, <1>6, <1>7 DEF Next

\* For any number of users, and whatever other requests, kills and failing
\* commands have left behind: unless old directories are listed, the number
\* that DMM_RegisterUser takes for free (dmm.cpp:3817) has no user.
THEOREM FreeNumberSafe == Spec => FreeNumber
<1>1. IInv /\ [Next]_vars =>
        [\A t \in Adders :
           pc[t] = "idle" /\ pc'[t] = "mkdir" /\ Listed \subseteq NewDirs
             => dir[at'[t]] \in NoFile]_vars
  <2> SUFFICES ASSUME IInv, [Next]_vars, NEW t \in Adders,
                      pc[t] = "idle", pc'[t] = "mkdir", Listed \subseteq NewDirs
               PROVE  dir[at'[t]] \in NoFile
    OBVIOUS
  <2>1. PICK n \in Names, residue \in Residue : Add(t, n, residue)
    BY StartsAdd
  <2>2. at'[t] = <<"new", Pick>> /\ \E i \in Numbers : FreeAt(i)
    BY <2>1 DEF Add, IInv, TypeOK, Threads
  <2>3. <<"new", Pick>> \in Dirs /\ <<"new", Pick>> \notin Listed
    BY <2>2, PickFree, PickIsFree DEF Dirs, NewDirs, Numbers
  <2> QED BY <2>2, <2>3 DEF Listed
<1> QED BY <1>1, Invariant, PTL DEF FreeNumber, Spec

\* What a step may do to the directory of a user.
LEMMA StepDurable ==
  ASSUME IInv, [Next]_vars, NEW d \in Dirs, ~astray, dir[d] \in Names, dir'[d] # dir[d]
  PROVE  \E t \in Threads : Acts(t) /\ dir[d] \in req[t]
<1> USE DEF IInv
<1>1. dir[d] \notin {"absent", "bare", "empty"}
  BY UserStoreAssumption
<1>2. PICK t \in Threads :
        \/ Mkdir(t) \/ Open(t) \/ Echo(t) \/ (\E e \in Dirs : RmFile(t, e)) \/ RmDir(t)
  BY DEF Next, Step, vars, Add, Delete, Look, Modify, Registered, Withdraw, Fail, Kill
<1>3. pc'[t] # pc[t]
  BY <1>2 DEF TypeOK, Mkdir, Open, Echo, RmFile, RmDir, End
<1>4. d \in Holds(t)
  <2>1. CASE Mkdir(t)
    BY <1>1, <2>1 DEF Mkdir, TypeOK, Places
  <2>2. CASE Open(t)
    BY <2>2 DEF Open, TypeOK, Places, Holds
  <2>3. CASE Echo(t)
    BY <2>3 DEF Echo, TypeOK, Holds
  <2>4. CASE \E e \in Dirs : RmFile(t, e)
    BY <2>4 DEF RmFile, TypeOK, Holds
  <2>5. CASE RmDir(t)
    BY <1>1, <2>5 DEF RmDir, TypeOK, Places, Holds
  <2> QED BY <1>2, <2>1, <2>2, <2>3, <2>4, <2>5
<1>5. dir[d] \in req[t]
  BY <1>1, <1>4 DEF Owned
<1> QED BY <1>3, <1>5 DEF Acts

\* For any names and any number of requests side by side: a stored user is
\* renamed or removed by a request that names it and by no other (dmm.cpp:3822,
\* alg.cpp:383), except while requests overlap of which two concern one name
\* (alg.cpp:1392) or one took what was left in szUserName for a name
\* (dmm.cpp:4029).
THEOREM DurableSafe == Spec => Durable
<1>1. IInv /\ [Next]_vars =>
        [\A d \in Dirs : ~astray /\ dir[d] \in Names /\ dir'[d] # dir[d] =>
           \E t \in Threads : Acts(t) /\ dir[d] \in req[t]]_vars
  BY StepDurable
<1> QED BY <1>1, Invariant, PTL DEF Durable, Spec

-----------------------------------------------------------------------------
(***************************************************************************)
(* The requests of the driver monitoring: proofs about DmmRun, for any     *)
(* number of workers, polls and messages.                                  *)
(***************************************************************************)
CONSTANTS Workers, Boot, Creare, Polls, MaxRequests
VARIABLES stat, result, mutex, foreign, userDir, user, mode, path, ending, leaked, bpc,
          callerPc, kind, polls, answer, requests

Run == INSTANCE DmmRun WITH pc <- callerPc

\* Whoever is past its first step has a request.
RunRequested == \A c \in Run!Callers : callerPc[c] # "idle" => kind[c] \in DOMAIN Run!Target

RunIInv == Run!TypeOK /\ RunRequested

LEMMA TargetType ==
  /\ DOMAIN Run!Target = {"pre", "stop", "cal", "add", "login"}
  /\ \A k \in DOMAIN Run!Target : Run!Target[k] \in Run!Status
BY DEF Run!Target, Run!Status

LEMMA RunInit ==
  ASSUME Run!DmmRunAssumption
  PROVE  Run!Init => RunIInv
<1> SUFFICES ASSUME Run!Init PROVE RunIInv
  OBVIOUS
<1>1. leaked \in BOOLEAN
  BY Zenon DEF Run!Init
<1>2. ending \in Run!Status \X Run!Result
  BY DEF Run!Init, Run!NoEnding, Run!Status, Run!Result
<1>3. /\ stat \in Run!Status /\ result \in Run!Result /\ mode \in Run!Status
      /\ mutex \in Run!Callers \cup {Run!alg, none} /\ foreign \subseteq Workers
      /\ userDir \in Workers \cup {none} /\ path \in Workers \cup {none}
      /\ bpc \in {"off", "top", "test", "work", "lock", "result", "stuck"}
      /\ requests \in 0 .. MaxRequests
  BY DEF Run!DmmRunAssumption, Run!Init, Run!Status, Run!Result
<1>4. /\ user \in [Workers -> {"none", "dir", "face"}]
      /\ callerPc \in [Run!Callers -> {"idle", "lock", "status", "poll", "answer"}]
      /\ kind \in [Run!Callers -> DOMAIN Run!Target \cup {none}]
      /\ polls \in [Run!Callers -> 0 .. Polls]
      /\ answer \in [Run!Callers -> Run!Result \cup {"none"}]
  BY DEF Run!DmmRunAssumption, Run!Init
<1>5. RunRequested
  BY DEF Run!Init, RunRequested
<1> QED BY <1>1, <1>2, <1>3, <1>4, <1>5 DEF RunIInv, Run!TypeOK

\* The steps of the algorithm thread.
LEMMA RunBody ==
  ASSUME RunIInv, Run!DMM_Start \/ Run!BodyStep \/ Run!Work \/ Run!EndStatus
  PROVE  RunIInv'
<1> USE DEF RunIInv
<1>1. UNCHANGED <<callerPc, kind, polls, answer, requests, userDir>>
  BY DEF Run!DMM_Start, Run!BodyStep, Run!Enter, Run!Test, Run!EndResult, Run!Work, Run!Again,
     Run!Leak, Run!Block, Run!Timeout, Run!PreTimeout, Run!Calibrated, Run!Registered, Run!Recognised,
     Run!AutoLogin, Run!ChangeDriver, Run!End, Run!EndStatus, Run!callers, Run!users
<1>2. RunRequested'
  BY <1>1 DEF RunRequested
<1>3. Run!TypeOK'
  <2>1. CASE Run!DMM_Start \/ Run!Enter \/ Run!Test \/ Run!EndStatus
    BY <1>1, <2>1 DEF Run!DMM_Start, Run!Enter, Run!Test, Run!EndStatus, Run!Move,
       Run!TypeOK, Run!shared, Run!users, Run!Status
  <2>2. CASE Run!EndResult
    BY <1>1, <2>2 DEF Run!EndResult, Run!Move, Run!TypeOK, Run!users, Run!NoEnding, Run!Status, Run!Result, Run!Waiting
  <2>3. CASE Run!Again \/ Run!Block
    BY <1>1, <2>3 DEF Run!Again, Run!Block, Run!Move, Run!TypeOK, Run!shared, Run!users
  <2>4. CASE Run!Leak
    <3>1. leaked' \in BOOLEAN
      BY <2>4, Zenon DEF Run!Leak
    <3> QED BY <1>1, <2>4, <3>1 DEF Run!Leak, Run!Move, Run!TypeOK, Run!shared, Run!users
  <2>5. ASSUME NEW e \in Run!Status \X Run!Result, Run!End(e) PROVE Run!TypeOK'
    BY <1>1, <2>5 DEF Run!End, Run!Move, Run!TypeOK, Run!shared, Run!users
  <2>6. CASE Run!Timeout \/ Run!Calibrated \/ Run!AutoLogin
    BY <2>5, <2>6 DEF Run!Timeout, Run!Calibrated, Run!AutoLogin, Run!Status, Run!Result
  <2>7. CASE Run!PreTimeout \/ Run!ChangeDriver
    BY <1>1, <2>7 DEF Run!PreTimeout, Run!ChangeDriver, Run!Move, Run!TypeOK, Run!users, Run!Status
  <2>8. CASE Run!Registered
    BY <1>1, <2>8 DEF Run!Registered, Run!Move, Run!TypeOK, Run!shared, Run!Status, Run!Result
  <2>9. CASE Run!Recognised
    BY <1>1, <2>9 DEF Run!Recognised, Run!Move, Run!TypeOK, Run!users, Run!Status, Run!Result, Run!Waiting
  <2> QED BY <2>1, <2>2, <2>3, <2>4, <2>6, <2>7, <2>8, <2>9 DEF Run!BodyStep, Run!Work
<1> QED BY <1>2, <1>3

\* The steps of a request.
LEMMA RunCaller ==
  ASSUME RunIInv, Run!DmmRunAssumption, NEW c \in Run!Callers,
         \/ \E k \in DOMAIN Run!Target : Run!Request(c, k)
         \/ Run!SetResult(c) \/ Run!CallerStep(c)
  PROVE  RunIInv'
<1> USE DEF RunIInv
<1>1. CASE \E k \in DOMAIN Run!Target : Run!Request(c, k)
  <2>1. PICK k \in DOMAIN Run!Target : Run!Request(c, k)
    BY <1>1
  <2>2. UNCHANGED <<stat, result, mutex, foreign, mode, path, ending, leaked, bpc, polls, answer>>
    BY <2>1 DEF Run!Request, Run!shared, Run!body
  <2>3. requests' \in 0 .. MaxRequests
    BY <2>1 DEF Run!Request, Run!DmmRunAssumption, Run!TypeOK
  <2>4. /\ kind' = [kind EXCEPT ![c] = k]
        /\ \/ callerPc' = [callerPc EXCEPT ![c] = "lock"]
           \/ callerPc' = [callerPc EXCEPT ![c] = "idle"]
    BY <2>1 DEF Run!Request, Run!Step
  <2>5. user' \in [Workers -> {"none", "dir", "face"}] /\ userDir' \in Workers \cup {none}
    <3>1. k = "add" => c \in Workers
      BY <2>1 DEF Run!Request, Run!Callers
    <3> QED BY <2>1, <3>1 DEF Run!Request, Run!users, Run!TypeOK
  <2>6. Run!TypeOK'
    BY <2>2, <2>3, <2>4, <2>5 DEF Run!TypeOK
  <2>7. RunRequested'
    BY <2>4 DEF RunRequested, Run!TypeOK
  <2> QED BY <2>6, <2>7
<1>2. CASE Run!SetResult(c)
  <2>1. Run!TypeOK'
    BY <1>2 DEF Run!SetResult, Run!Step, Run!TypeOK, Run!users, Run!body, Run!Result
  <2>2. RunRequested'
    BY <1>2 DEF Run!SetResult, Run!Step, RunRequested, Run!TypeOK
  <2> QED BY <2>1, <2>2
<1>3. CASE Run!SetStatus(c)
  <2>1. Run!Target[kind[c]] \in Run!Status
    BY <1>3, TargetType DEF Run!SetStatus, Run!Step, RunRequested
  <2>2. Run!TypeOK'
    BY <1>3, <2>1 DEF Run!SetStatus, Run!Step, Run!TypeOK, Run!users, Run!body
  <2>3. RunRequested'
    BY <1>3 DEF Run!SetStatus, Run!Step, RunRequested, Run!TypeOK
  <2> QED BY <2>2, <2>3
<1>4. CASE Run!Poll(c)
  <2>1. UNCHANGED <<stat, result, mutex, foreign, userDir, user, mode, path, ending, leaked, bpc, kind, requests>>
    BY <1>4 DEF Run!Poll, Run!shared, Run!users, Run!body
  <2>2. polls' \in [Run!Callers -> 0 .. Polls]
    BY <1>4 DEF Run!Poll, Run!TypeOK, Run!DmmRunAssumption
  <2>3. answer' \in [Run!Callers -> Run!Result \cup {"none"}]
    BY <1>4 DEF Run!Poll, Run!TypeOK, Run!Result
  <2>4. /\ callerPc[c] = "poll"
        /\ \/ callerPc' = [callerPc EXCEPT ![c] = "answer"]
           \/ callerPc' = [callerPc EXCEPT ![c] = "poll"]
    BY <1>4 DEF Run!Poll, Run!Step
  <2>5. Run!TypeOK'
    BY <2>1, <2>2, <2>3, <2>4 DEF Run!TypeOK
  <2>6. RunRequested'
    BY <2>1, <2>4 DEF RunRequested, Run!TypeOK
  <2> QED BY <2>5, <2>6
<1>5. CASE Run!Answer(c)
  <2>1. Run!TypeOK'
    BY <1>5 DEF Run!Answer, Run!Step, Run!TypeOK, Run!shared, Run!body
  <2>2. RunRequested'
    BY <1>5 DEF Run!Answer, Run!Step, RunRequested, Run!TypeOK
  <2> QED BY <2>1, <2>2
<1> QED BY <1>1, <1>2, <1>3, <1>4, <1>5 DEF Run!CallerStep

\* Type correctness of the run status and the requests that steer it: the
\* status is one that dmm_alg_Body has a body for, and no caller polls more
\* often than it may (alg.cpp:258-267, 372-380, 504-512).
THEOREM RunTypeCorrect ==
  ASSUME Run!DmmRunAssumption
  PROVE  Run!Spec => []Run!TypeOK
<1>1. RunIInv /\ UNCHANGED Run!vars => RunIInv'
  BY DEF RunIInv, RunRequested, Run!TypeOK, Run!vars, Run!shared, Run!users, Run!body, Run!callers
<1>2. RunIInv /\ [Run!Next]_(Run!vars) => RunIInv'
  BY <1>1, RunBody, RunCaller DEF Run!Next
<1>3. RunIInv => Run!TypeOK
  BY DEF RunIInv
<1> QED BY <1>2, <1>3, RunInit, PTL DEF Run!Spec

\* mutexRunStat is held by whoever stands between two writes, and by one
\* thread at a time.
RunOwner ==
  /\ \A c \in Run!Callers : callerPc[c] = "status" => mutex = c
  /\ bpc = "result" => mutex = Run!alg /\ \A c \in Run!Callers : callerPc[c] # "status"

LEMMA RunOwnerBody ==
  ASSUME RunOwner, Run!DmmRunAssumption, Run!DMM_Start \/ Run!BodyStep \/ Run!Work \/ Run!EndStatus
  PROVE  RunOwner'
<1>1. UNCHANGED callerPc
  BY DEF Run!DMM_Start, Run!BodyStep, Run!Enter, Run!Test, Run!EndResult, Run!Work, Run!Again,
     Run!Leak, Run!Block, Run!Timeout, Run!PreTimeout, Run!Calibrated, Run!Registered, Run!Recognised,
     Run!AutoLogin, Run!ChangeDriver, Run!End, Run!EndStatus, Run!callers
<1>2. CASE Run!EndStatus
  <2>1. mutex = none /\ mutex' = Run!alg
    BY <1>2 DEF Run!EndStatus
  <2>2. \A c \in Run!Callers : callerPc[c] # "status"
    BY <2>1 DEF RunOwner, Run!DmmRunAssumption, Run!Callers
  <2> QED BY <1>1, <2>1, <2>2 DEF RunOwner
<1>3. CASE Run!EndResult
  <2>1. bpc = "result" /\ bpc' # "result"
    BY <1>3 DEF Run!EndResult, Run!Move
  <2> QED BY <1>1, <2>1 DEF RunOwner
<1>4. CASE Run!DMM_Start \/ Run!Enter \/ Run!Test \/ Run!Work
  <2>1. UNCHANGED mutex /\ bpc' # "result"
    BY <1>4 DEF Run!DMM_Start, Run!Enter, Run!Test, Run!Work, Run!Again, Run!Leak, Run!Block,
       Run!Timeout, Run!PreTimeout, Run!Calibrated, Run!Registered, Run!Recognised,
       Run!AutoLogin, Run!ChangeDriver, Run!End, Run!Move, Run!shared
  <2> QED BY <1>1, <2>1 DEF RunOwner
<1> QED BY <1>2, <1>3, <1>4 DEF Run!BodyStep

LEMMA RunOwnerCaller ==
  ASSUME RunIInv, RunOwner, Run!DmmRunAssumption, NEW c \in Run!Callers,
         \/ \E k \in DOMAIN Run!Target : Run!Request(c, k)
         \/ Run!SetResult(c) \/ Run!CallerStep(c)
  PROVE  RunOwner'
<1>1. UNCHANGED bpc
  BY DEF Run!Request, Run!SetResult, Run!CallerStep, Run!SetStatus, Run!Poll, Run!Answer, Run!body
<1>2. callerPc \in [Run!Callers -> {"idle", "lock", "status", "poll", "answer"}]
  BY DEF RunIInv, Run!TypeOK
<1>3. CASE Run!SetResult(c)
  <2>1. mutex = none /\ mutex' = c /\ callerPc' = [callerPc EXCEPT ![c] = "status"]
    BY <1>3 DEF Run!SetResult, Run!Step
  <2>2. bpc # "result" /\ \A d \in Run!Callers : callerPc[d] # "status"
    BY <2>1 DEF RunOwner, Run!DmmRunAssumption, Run!Callers, Run!alg
  <2> QED BY <1>1, <1>2, <2>1, <2>2 DEF RunOwner
<1>4. CASE Run!SetStatus(c)
  <2>1. /\ callerPc[c] = "status" /\ mutex' = none
        /\ \/ callerPc' = [callerPc EXCEPT ![c] = "idle"]
           \/ callerPc' = [callerPc EXCEPT ![c] = "poll"]
    BY <1>4 DEF Run!SetStatus, Run!Step
  <2>2. bpc # "result" /\ \A d \in Run!Callers : callerPc[d] = "status" => d = c
    BY <2>1 DEF RunOwner
  <2> QED BY <1>1, <1>2, <2>1, <2>2 DEF RunOwner
<1>5. CASE (\E k \in DOMAIN Run!Target : Run!Request(c, k)) \/ Run!Poll(c) \/ Run!Answer(c)
  <2>1. /\ UNCHANGED mutex
        /\ \E to \in {"idle", "lock", "poll", "answer"} : callerPc' = [callerPc EXCEPT ![c] = to]
    BY <1>5 DEF Run!Request, Run!Poll, Run!Answer, Run!Step, Run!shared
  <2> QED BY <1>1, <1>2, <2>1 DEF RunOwner
<1> QED BY <1>3, <1>4, <1>5 DEF Run!CallerStep

\* What a step may change while another thread stands between two writes.
RunPairs ==
  /\ \A c \in Run!Callers :
       callerPc[c] = "status" /\ callerPc'[c] = "status" =>
         /\ result' = result \/ bpc = "work"
         /\ stat' = stat \/ bpc \in {"off", "work"}
  /\ bpc = "result" /\ bpc' = "result" => UNCHANGED <<stat, result>>

LEMMA RunPairsStep ==
  ASSUME RunIInv, RunOwner, Run!DmmRunAssumption, Run!Next
  PROVE  RunPairs
<1>1. CASE Run!DMM_Start \/ Run!Work
  <2>1. bpc \in {"off", "work"} /\ (bpc = "off" => UNCHANGED result)
    BY <1>1 DEF Run!DMM_Start, Run!Work, Run!Again, Run!Leak, Run!Block,
       Run!Timeout, Run!PreTimeout, Run!Calibrated, Run!Registered, Run!Recognised,
       Run!AutoLogin, Run!ChangeDriver, Run!End, Run!Move
  <2> QED BY <2>1 DEF RunPairs
<1>2. CASE Run!Enter \/ Run!Test
  BY <1>2 DEF Run!Enter, Run!Test, Run!shared, RunPairs
<1>3. CASE Run!EndResult
  <2>1. bpc = "result" /\ bpc' # "result"
    BY <1>3 DEF Run!EndResult, Run!Move
  <2> QED BY <2>1 DEF RunOwner, RunPairs
<1>4. CASE Run!EndStatus
  <2>1. bpc = "lock" /\ mutex = none
    BY <1>4 DEF Run!EndStatus, Run!Move
  <2>2. \A c \in Run!Callers : callerPc[c] # "status"
    BY <2>1 DEF RunOwner, Run!DmmRunAssumption, Run!Callers
  <2> QED BY <2>1, <2>2 DEF RunPairs
<1>5. ASSUME NEW c \in Run!Callers, Run!SetResult(c) PROVE RunPairs
  <2>1. mutex = none
    BY <1>5 DEF Run!SetResult
  <2>2. bpc # "result" /\ \A d \in Run!Callers : callerPc[d] # "status"
    BY <2>1 DEF RunOwner, Run!DmmRunAssumption, Run!Callers, Run!alg
  <2> QED BY <2>2 DEF RunPairs
<1>6. ASSUME NEW c \in Run!Callers, Run!SetStatus(c) PROVE RunPairs
  <2>1. callerPc[c] = "status" /\ callerPc'[c] # "status"
    BY <1>6 DEF Run!SetStatus, Run!Step, RunIInv, Run!TypeOK
  <2>2. bpc # "result" /\ \A d \in Run!Callers : callerPc[d] = "status" => d = c
    BY <2>1 DEF RunOwner
  <2> QED BY <2>1, <2>2 DEF RunPairs
<1>7. ASSUME NEW c \in Run!Callers,
             (\E k \in DOMAIN Run!Target : Run!Request(c, k)) \/ Run!Poll(c) \/ Run!Answer(c)
      PROVE  RunPairs
  BY <1>7 DEF Run!Request, Run!Poll, Run!Answer, Run!shared, RunPairs
<1> QED BY <1>1, <1>2, <1>3, <1>4, <1>5, <1>6, <1>7 DEF Run!Next, Run!BodyStep, Run!CallerStep

\* What mutexRunStat keeps together, for any number of workers: nothing comes
\* between the result and the status of a request but the writes that a body
\* makes without the mutex, and nothing between the two writes that end one
\* (dmm.cpp, DMM_SetRunStatus and the ends of the bodies).
THEOREM RunPairsKept ==
  ASSUME Run!DmmRunAssumption
  PROVE  Run!Spec => Run!PairsKept
<1> DEFINE Inv == RunIInv /\ RunOwner
<1>1. Run!Init => Inv
  BY RunInit DEF Run!Init, RunOwner
<1>2. Inv /\ UNCHANGED Run!vars => Inv'
  BY DEF RunIInv, RunRequested, RunOwner, Run!TypeOK, Run!vars, Run!shared, Run!users, Run!body, Run!callers
<1>3. Inv /\ [Run!Next]_(Run!vars) => Inv'
  BY <1>2, RunBody, RunCaller, RunOwnerBody, RunOwnerCaller DEF Run!Next
<1>4. Inv /\ [Run!Next]_(Run!vars) => [RunPairs]_(Run!vars)
  BY RunPairsStep
<1>5. Run!Spec => [][RunPairs]_(Run!vars)
  BY <1>1, <1>3, <1>4, PTL DEF Run!Spec
<1> QED BY <1>5 DEF Run!PairsKept, RunPairs

\* A register body that is about to report success has stored the face of
\* its user, who is known by a request and keeps the directory until the
\* answer.
RunStored ==
  /\ path \in Workers => kind[path] = "add"
  /\ userDir \in Workers => kind[userDir] = "add"
  /\ \A w \in Workers :
       kind[w] = "add" /\ callerPc[w] # "idle" => user[w] \in {"dir", "face"}
  /\ /\ mode = "reg" /\ bpc \in {"lock", "result"} /\ ending[2] = "success"
     /\ path \in Workers /\ callerPc[path] # "idle"
     => user[path] = "face"

\* A success that a caller sees, or has seen, is that of its own body.
RunOwn ==
  \A w \in Workers \ foreign : kind[w] = "add" =>
    /\ callerPc[w] \in {"status", "poll"} /\ result = "success" => user[w] = "face"
    /\ callerPc[w] \in {"answer", "idle"} /\ answer[w] = "success" => user[w] = "face"

LEMMA RunStoredBody ==
  ASSUME RunIInv, RunStored, Run!DmmRunAssumption, Run!DMM_Start \/ Run!BodyStep \/ Run!Work \/ Run!EndStatus
  PROVE  RunStored'
<1>1. UNCHANGED <<callerPc, kind, userDir>>
  BY DEF Run!DMM_Start, Run!BodyStep, Run!Enter, Run!Test, Run!EndResult, Run!Work, Run!Again,
     Run!Leak, Run!Block, Run!Timeout, Run!PreTimeout, Run!Calibrated, Run!Registered, Run!Recognised,
     Run!AutoLogin, Run!ChangeDriver, Run!End, Run!EndStatus, Run!callers, Run!users
<1>2. CASE Run!Registered
  <2>1. /\ UNCHANGED <<mode, path>>
        /\ user' = IF path \in Workers /\ user[path] = "dir" THEN [user EXCEPT ![path] = "face"] ELSE user
    BY <1>2 DEF Run!Registered
  <2>2. user \in [Workers -> {"none", "dir", "face"}]
    BY DEF RunIInv, Run!TypeOK
  <2> QED BY <1>1, <2>1, <2>2 DEF RunStored
<1>3. CASE Run!Enter
  BY <1>1, <1>3 DEF Run!Enter, Run!Move, Run!users, RunStored, Run!DmmRunAssumption, Run!Callers
<1>4. CASE Run!EndStatus
  BY <1>1, <1>4 DEF Run!EndStatus, Run!Move, Run!users, RunStored
<1>5. CASE Run!DMM_Start \/ Run!Test \/ Run!EndResult \/ Run!Again \/ Run!Leak \/ Run!Block \/ Run!PreTimeout
           \/ Run!ChangeDriver
  <2>1. UNCHANGED <<user, mode, path>> /\ bpc' \notin {"lock", "result"}
    BY <1>5 DEF Run!DMM_Start, Run!Test, Run!EndResult, Run!Again, Run!Leak, Run!Block,
       Run!PreTimeout, Run!ChangeDriver, Run!Move, Run!users
  <2> QED BY <1>1, <2>1 DEF RunStored
<1>6. CASE Run!Timeout \/ Run!Calibrated \/ Run!Recognised \/ Run!AutoLogin
  <2>1. UNCHANGED <<user, mode, path>> /\ (mode = "reg" => ending' = <<"det", "failure">>)
    BY <1>6 DEF Run!Timeout, Run!Calibrated, Run!Recognised, Run!AutoLogin, Run!End, Run!users
  <2>2. mode' = "reg" => ending'[2] # "success"
    BY <2>1
  <2> QED BY <1>1, <2>1, <2>2 DEF RunStored
<1> QED BY <1>2, <1>3, <1>4, <1>5, <1>6 DEF Run!BodyStep, Run!Work

LEMMA RunStoredCaller ==
  ASSUME RunIInv, RunStored, Run!DmmRunAssumption, NEW c \in Run!Callers,
         \/ \E k \in DOMAIN Run!Target : Run!Request(c, k)
         \/ Run!SetResult(c) \/ Run!CallerStep(c)
  PROVE  RunStored'
<1>1. UNCHANGED <<bpc, mode, path, ending>>
  BY DEF Run!Request, Run!SetResult, Run!CallerStep, Run!SetStatus, Run!Poll, Run!Answer, Run!body
<1>2. /\ callerPc \in [Run!Callers -> {"idle", "lock", "status", "poll", "answer"}]
      /\ kind \in [Run!Callers -> DOMAIN Run!Target \cup {none}]
      /\ user \in [Workers -> {"none", "dir", "face"}]
      /\ Workers \subseteq Run!Callers
  BY DEF RunIInv, Run!TypeOK, Run!Callers
<1>3. CASE \E k \in DOMAIN Run!Target : Run!Request(c, k)
  <2>1. PICK k \in DOMAIN Run!Target : Run!Request(c, k)
    BY <1>3
  <2>2. kind' = [kind EXCEPT ![c] = k]
    BY <2>1 DEF Run!Request
  <2>3. CASE c = rx
    <3>1. /\ UNCHANGED <<user, userDir>> /\ rx \notin Workers
          /\ \E to \in {"idle", "lock"} : callerPc' = [callerPc EXCEPT ![c] = to]
      BY <2>1, <2>3 DEF Run!Request, Run!Step, Run!users, Run!DmmRunAssumption
    <3>2. \A w \in Workers : kind'[w] = kind[w] /\ callerPc'[w] = callerPc[w]
      BY <1>2, <2>2, <2>3, <3>1
    <3> QED BY <1>1, <3>1, <3>2 DEF RunStored
  <2>4. CASE c # rx
    <3>1. /\ kind[c] = none /\ c \in Workers
          /\ callerPc' = [callerPc EXCEPT ![c] = "lock"]
          /\ IF k = "add" THEN user' = [user EXCEPT ![c] = "dir"] /\ userDir' = c
                          ELSE UNCHANGED <<user, userDir>>
      BY <2>1, <2>4 DEF Run!Request, Run!Step, Run!users, Run!Callers
    <3>2. kind[c] # "add"
      BY <3>1, TargetType DEF Run!DmmRunAssumption
    <3>3. path # c /\ userDir # c
      BY <3>1, <3>2 DEF RunStored
    <3>4. (path \in Workers => kind'[path] = "add") /\ (userDir' \in Workers => kind'[userDir'] = "add")
      BY <1>2, <2>2, <3>1, <3>3 DEF RunStored
    <3>5. \A w \in Workers : kind'[w] = "add" /\ callerPc'[w] # "idle" => user'[w] \in {"dir", "face"}
      BY <1>2, <2>2, <3>1 DEF RunStored
    <3>6. path \in Workers => callerPc'[path] = callerPc[path] /\ user'[path] = user[path]
      BY <1>2, <3>1, <3>3
    <3> QED BY <1>1, <3>4, <3>5, <3>6 DEF RunStored
  <2> QED BY <2>3, <2>4
<1>4. CASE Run!SetResult(c) \/ Run!SetStatus(c) \/ Run!Poll(c)
  <2>1. /\ UNCHANGED <<kind, user, userDir>> /\ callerPc[c] # "idle"
        /\ \E to : callerPc' = [callerPc EXCEPT ![c] = to]
    BY <1>4 DEF Run!SetResult, Run!SetStatus, Run!Poll, Run!Step, Run!users
  <2>2. \A w \in Workers : callerPc'[w] # "idle" => callerPc[w] # "idle"
    BY <1>2, <2>1
  <2> QED BY <1>1, <2>1, <2>2 DEF RunStored
<1>5. CASE Run!Answer(c)
  <2>1. /\ UNCHANGED <<kind, userDir>>
        /\ callerPc' = [callerPc EXCEPT ![c] = "idle"]
        /\ user' = user \/ user' = [user EXCEPT ![c] = "none"]
    BY <1>5 DEF Run!Answer, Run!Step
  <2>2. \A w \in Workers : callerPc'[w] # "idle" => callerPc[w] # "idle" /\ user'[w] = user[w]
    BY <1>2, <2>1
  <2> QED BY <1>1, <2>1, <2>2 DEF RunStored
<1> QED BY <1>3, <1>4, <1>5 DEF Run!CallerStep

LEMMA RunOwnBody ==
  ASSUME RunIInv, RunStored, RunOwn, Run!DMM_Start \/ Run!BodyStep \/ Run!Work \/ Run!EndStatus
  PROVE  RunOwn'
<1>1. UNCHANGED <<callerPc, kind, answer>>
  BY DEF Run!DMM_Start, Run!BodyStep, Run!Enter, Run!Test, Run!EndResult, Run!Work, Run!Again,
     Run!Leak, Run!Block, Run!Timeout, Run!PreTimeout, Run!Calibrated, Run!Registered, Run!Recognised,
     Run!AutoLogin, Run!ChangeDriver, Run!End, Run!EndStatus, Run!callers
<1>2. CASE Run!EndResult
  <2>1. UNCHANGED user /\ bpc = "result"
    BY <1>2 DEF Run!EndResult, Run!Move, Run!users
  <2>2. CASE mode \in {"cal", "reg"} \/ ending[2] = "timeout"
    <3>1. result' = ending[2] /\ foreign' = foreign \cup {w \in Run!Waiting : mode # "reg" \/ path # w}
      BY <1>2, <2>2 DEF Run!EndResult
    <3>2. \A w \in Workers \ foreign' :
            callerPc[w] \in {"status", "poll"} => mode = "reg" /\ path = w
      BY <3>1 DEF Run!Waiting
    <3> QED BY <1>1, <2>1, <3>1, <3>2 DEF RunOwn, RunStored
  <2>3. CASE ~(mode \in {"cal", "reg"} \/ ending[2] = "timeout")
    BY <1>1, <1>2, <2>1, <2>3 DEF Run!EndResult, RunOwn
  <2> QED BY <2>2, <2>3
<1>3. CASE Run!Recognised
  <2>1. UNCHANGED user /\ foreign' = foreign \cup Run!Waiting
    BY <1>3 DEF Run!Recognised, Run!users
  <2> QED BY <1>1, <2>1 DEF RunOwn, Run!Waiting
<1>4. CASE Run!Registered
  <2>1. /\ UNCHANGED <<result, foreign>>
        /\ user' = IF path \in Workers /\ user[path] = "dir" THEN [user EXCEPT ![path] = "face"] ELSE user
    BY <1>4 DEF Run!Registered, Run!shared
  <2>2. user \in [Workers -> {"none", "dir", "face"}]
    BY DEF RunIInv, Run!TypeOK
  <2>3. \A w \in Workers : user[w] = "face" => user'[w] = "face"
    BY <2>1, <2>2
  <2> QED BY <1>1, <2>1, <2>3 DEF RunOwn
<1>5. CASE \/ Run!DMM_Start \/ Run!Enter \/ Run!Test \/ Run!EndStatus
           \/ Run!Again \/ Run!Leak \/ Run!Block \/ Run!Timeout \/ Run!PreTimeout \/ Run!Calibrated
           \/ Run!AutoLogin \/ Run!ChangeDriver
  <2>1. UNCHANGED <<result, foreign, user>>
    BY <1>5 DEF Run!DMM_Start, Run!Enter, Run!Test, Run!EndStatus, Run!Again, Run!Leak, Run!Block,
       Run!Timeout, Run!PreTimeout, Run!Calibrated, Run!AutoLogin, Run!ChangeDriver, Run!End,
       Run!shared, Run!users
  <2> QED BY <1>1, <2>1 DEF RunOwn
<1> QED BY <1>2, <1>3, <1>4, <1>5 DEF Run!BodyStep, Run!Work

LEMMA RunOwnCaller ==
  ASSUME RunIInv, RunOwn, Run!DmmRunAssumption, NEW c \in Run!Callers,
         \/ \E k \in DOMAIN Run!Target : Run!Request(c, k)
         \/ Run!SetResult(c) \/ Run!CallerStep(c)
  PROVE  RunOwn'
<1>1. /\ callerPc \in [Run!Callers -> {"idle", "lock", "status", "poll", "answer"}]
      /\ kind \in [Run!Callers -> DOMAIN Run!Target \cup {none}]
      /\ answer \in [Run!Callers -> Run!Result \cup {"none"}]
      /\ user \in [Workers -> {"none", "dir", "face"}]
      /\ Workers \subseteq Run!Callers
  BY DEF RunIInv, Run!TypeOK, Run!Callers
<1>2. CASE \E k \in DOMAIN Run!Target : Run!Request(c, k)
  <2>1. PICK k \in DOMAIN Run!Target : Run!Request(c, k)
    BY <1>2
  <2>2. /\ kind' = [kind EXCEPT ![c] = k]
        /\ UNCHANGED <<result, foreign, answer>>
        /\ \E to \in {"idle", "lock"} : callerPc' = [callerPc EXCEPT ![c] = to]
    BY <2>1 DEF Run!Request, Run!Step, Run!shared
  <2>3. c \in Workers => callerPc' = [callerPc EXCEPT ![c] = "lock"]
    BY <2>1 DEF Run!Request, Run!Step, Run!DmmRunAssumption
  <2>4. user' = user \/ (c \in Workers /\ user' = [user EXCEPT ![c] = "dir"])
    BY <2>1 DEF Run!Request, Run!users, Run!Callers
  <2>5. \A w \in Workers : w # c => kind'[w] = kind[w] /\ callerPc'[w] = callerPc[w] /\ user'[w] = user[w]
    BY <1>1, <2>2, <2>4
  <2>6. c \in Workers => callerPc'[c] = "lock"
    BY <1>1, <2>3
  <2> QED BY <2>2, <2>5, <2>6 DEF RunOwn
<1>3. CASE Run!SetResult(c)
  <2>1. /\ UNCHANGED <<kind, answer, user>>
        /\ callerPc' = [callerPc EXCEPT ![c] = "status"]
        /\ foreign' = foreign \ {c}
        /\ result' = IF kind[c] \in {"cal", "add", "login"} THEN "running" ELSE result
    BY <1>3 DEF Run!SetResult, Run!Step, Run!users
  <2> QED BY <1>1, <2>1 DEF RunOwn
<1>4. CASE Run!SetStatus(c)
  <2>1. /\ UNCHANGED <<kind, answer, user, result, foreign>>
        /\ callerPc[c] = "status"
        /\ callerPc' = [callerPc EXCEPT ![c] = IF kind[c] \in {"pre", "stop"} THEN "idle" ELSE "poll"]
    BY <1>4 DEF Run!SetStatus, Run!Step, Run!users
  <2> QED BY <1>1, <2>1 DEF RunOwn
<1>5. CASE Run!Poll(c)
  <2>1. /\ UNCHANGED <<kind, user, result, foreign>>
        /\ callerPc[c] = "poll"
        /\ \E to \in {"poll", "answer"} : callerPc' = [callerPc EXCEPT ![c] = to]
        /\ answer' = [answer EXCEPT ![c] = IF result = "running" \/ polls[c] = Polls THEN "timeout" ELSE result]
    BY <1>5 DEF Run!Poll, Run!Step, Run!shared, Run!users
  <2>2. answer'[c] = "success" => result = "success"
    BY <1>1, <2>1
  <2>3. \A w \in Workers : w # c => callerPc'[w] = callerPc[w] /\ answer'[w] = answer[w]
    BY <1>1, <2>1
  <2>4. callerPc'[c] \in {"poll", "answer"}
    BY <1>1, <2>1
  <2> QED BY <2>1, <2>2, <2>3, <2>4 DEF RunOwn
<1>6. CASE Run!Answer(c)
  <2>1. /\ UNCHANGED <<kind, result, foreign>>
        /\ callerPc[c] = "answer"
        /\ callerPc' = [callerPc EXCEPT ![c] = "idle"]
        /\ answer' = [answer EXCEPT ![c] = IF c = rx THEN "none" ELSE @]
        /\ user' = IF kind[c] = "add" /\ answer[c] # "success" THEN [user EXCEPT ![c] = "none"] ELSE user
    BY <1>6 DEF Run!Answer, Run!Step, Run!shared
  <2>2. \A w \in Workers : answer'[w] = answer[w]
    BY <1>1, <2>1 DEF Run!DmmRunAssumption
  <2>3. \A w \in Workers : w # c => callerPc'[w] = callerPc[w] /\ user'[w] = user[w]
    BY <1>1, <2>1
  <2>4. callerPc'[c] = "idle" /\ (kind[c] = "add" /\ answer[c] = "success" => user' = user)
    BY <1>1, <2>1
  <2> QED BY <2>1, <2>2, <2>3, <2>4 DEF RunOwn
<1> QED BY <1>2, <1>3, <1>4, <1>5, <1>6 DEF Run!CallerStep

\* A success that callbackAddUser reports stands for a stored face, unless
\* another body has written enRunResult while it waited: for any number of
\* workers whose requests overwrite the status, the user to register and
\* each other's result (dmm.cpp:1813-1822, alg.cpp:371-385).
THEOREM RunOwnSuccess ==
  ASSUME Run!DmmRunAssumption
  PROVE  Run!Spec => []Run!OwnSuccessStored
<1> DEFINE Inv == RunIInv /\ RunStored /\ RunOwn
<1>1. Run!Init => Inv
  <2> SUFFICES ASSUME Run!Init PROVE Inv
    OBVIOUS
  <2>1. RunIInv
    BY RunInit
  <2>2. none \notin Workers /\ none # "add"
    BY TargetType DEF Run!DmmRunAssumption, Run!Callers
  <2>3. RunStored /\ RunOwn
    BY <2>2 DEF Run!Init, RunStored, RunOwn, Run!Callers
  <2> QED BY <2>1, <2>3
<1>2. Inv /\ UNCHANGED Run!vars => Inv'
  BY DEF RunIInv, RunRequested, RunStored, RunOwn, Run!TypeOK,
     Run!vars, Run!shared, Run!users, Run!body, Run!callers
<1>3. Inv /\ [Run!Next]_(Run!vars) => Inv'
  BY <1>2, RunBody, RunCaller, RunStoredBody, RunStoredCaller, RunOwnBody, RunOwnCaller DEF Run!Next
<1>4. Inv => Run!OwnSuccessStored
  BY DEF RunOwn, Run!OwnSuccessStored
<1> QED BY <1>1, <1>3, <1>4, PTL DEF Run!Spec

=============================================================================
