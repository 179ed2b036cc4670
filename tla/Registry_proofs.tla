-------------------------- MODULE Registry_proofs ---------------------------
(***************************************************************************)
(* Proofs about Registry, for any set of modules with any dependencies:    *)
(* what the search has done when it is interrupted at any point, and what  *)
(* the loops of Start and Stop make of its order.                          *)
(***************************************************************************)
EXTENDS Registry, SequenceTheorems, FiniteSetTheorems, WellFoundedInduction, TLAPS

On == added \ off

\* The visits under way are those of the modules marked 1, each once.
PathMarked ==
  /\ \A i \in 1..Len(path) : mark[path[i]] = 1
  /\ \A i, j \in 1..Len(path) : path[i] = path[j] => i = j

\* What is in the order is done and comes after what it depends on.
OrderFirst ==
  /\ \A n \in Names : mark[n] = 2 <=> \E i \in 1..Len(ordered) : ordered[i] = n
  /\ \A i, j \in 1..Len(ordered) : ordered[i] = ordered[j] => i = j
  /\ \A i \in 1..Len(ordered) : \A d \in deps[ordered[i]] : \E j \in 1..(i - 1) : ordered[j] = d

\* A loop has visited what it has not left, but for the visit under way.
LoopsKeep ==
  /\ \A n \in Names : mark[n] = 0 => left[n] = deps[n]
  /\ \A i \in 1..Len(path) : \A d \in deps[path[i]] :
       \/ d \in left[path[i]] \/ mark[d] = 2
       \/ (i < Len(path) /\ d = path[i + 1])
  /\ \A n \in On : n \in roots \/ mark[n] = 2 \/ (path # <<>> /\ n = path[1])

\* The search is over before anything is registered.
SearchOver == phase \notin {"resolve", "exit"} => path = <<>> /\ roots = {}

UpTo(k) == {ordered[i] : i \in 1..k}

\* The modules that run are those before the cursor.
Cursor ==
  /\ phase \in {"resolve", "register", "close", "exit"} => up = {}
  /\ phase \in {"resolve", "register"} => next = 1
  /\ phase = "start" => next \in 1..(Len(ordered) + 1) /\ up = UpTo(next - 1)
  /\ phase \in {"serve", "drain"} => up = UpTo(Len(ordered))
  /\ phase = "stop" => next \in 0..Len(ordered) /\ up = UpTo(next)

Listener ==
  /\ phase \in {"resolve", "register", "start"} => http = "new"
  /\ phase \in {"drain", "stop", "close", "exit"} => http = "closed"
  /\ phase \notin {"close", "exit"} => pool
  /\ phase \in {"resolve", "register", "start", "exit"} => handlers = NoHandlers

Search == PathMarked /\ OrderFirst /\ LoopsKeep /\ SearchOver
IInv == TypeOK /\ Search /\ Cursor /\ Listener

-----------------------------------------------------------------------------

LEMMA InitHolds == Init => IInv
<1> SUFFICES ASSUME Init PROVE IInv
  OBVIOUS
<1>1. TypeOK
  <2>1. ordered \in Seq(added \ off) /\ path \in Seq(added \ off) /\ Len(ordered) = 0
    BY EmptySeq DEF Init
  <2>2. mark \in [Names -> 0..2] /\ deps \in [Names -> SUBSET Names]
    BY DEF Init
  <2>3. /\ next \in 0..(Len(ordered) + 1)
        /\ handlers \in [Handlers -> {"none", "runs", "queries"}]
    BY <2>1 DEF Init, NoHandlers
  <2> QED BY <2>1, <2>2, <2>3 DEF Init, TypeOK
<1>2. Search
  BY EmptySeq DEF Init, Search, PathMarked, OrderFirst, LoopsKeep, SearchOver, On
<1>3. Cursor /\ Listener
  BY DEF Init, Cursor, Listener
<1> QED BY <1>1, <1>2, <1>3 DEF IInv

LEMMA StillPreserves ==
  ASSUME IInv, UNCHANGED vars
  PROVE  IInv'
<1> USE DEF vars, world, search
<1>1. TypeOK'
  BY DEF IInv, TypeOK
<1>2. Search'
  BY DEF IInv, Search, PathMarked, OrderFirst, LoopsKeep, SearchOver, On
<1>3. Cursor' /\ Listener'
  BY DEF IInv, Cursor, UpTo, Listener
<1> QED BY <1>1, <1>2, <1>3 DEF IInv

\* The end of the process keeps what was found and stops everything.
LEMMA ExitPreserves ==
  ASSUME IInv, Exit, failed' \in BOOLEAN
  PROVE  IInv'
<1> USE DEF Exit, world, search
<1>1. handlers' \in [Handlers -> {"none", "runs", "queries"}]
  BY DEF NoHandlers
<1>2. TypeOK'
  BY <1>1 DEF IInv, TypeOK
<1>3. Search'
  BY DEF IInv, Search, PathMarked, OrderFirst, LoopsKeep, SearchOver, On
<1>4. Cursor' /\ Listener'
  BY DEF IInv, Cursor, Listener
<1> QED BY <1>2, <1>3, <1>4 DEF IInv

\* Steps after the search leave it alone.
LEMMA SearchKept ==
  ASSUME IInv, UNCHANGED <<world, search, ordered>>, phase # "resolve", phase' # "resolve",
         phase # "exit"
  PROVE  Search'
  BY DEF IInv, Search, PathMarked, OrderFirst, LoopsKeep, SearchOver, On, world, search

-----------------------------------------------------------------------------
(* The search                                                              *)

\* In a search nothing runs yet.
LEMMA SearchingKept ==
  ASSUME IInv, phase = "resolve", phase' = "resolve", UNCHANGED <<next, up, http, handlers, pool>>
  PROVE  Cursor' /\ Listener'
  BY DEF IInv, Cursor, Listener

Typed ==
  /\ path \in Seq(On) /\ ordered \in Seq(On) /\ On \subseteq Names
  /\ Len(path) \in Nat /\ Len(ordered) \in Nat
  /\ \A i \in 1..Len(path) : path[i] \in On /\ path[i] \in Names
  /\ \A i \in 1..Len(ordered) : ordered[i] \in On /\ ordered[i] \in Names
  /\ path = <<>> <=> Len(path) = 0
  /\ mark \in [Names -> 0..2] /\ left \in [Names -> SUBSET Names]
  /\ deps \in [Names -> SUBSET Names] /\ roots \subseteq On

LEMMA PathTyped ==
  ASSUME IInv
  PROVE  Typed
<1>1. /\ path \in Seq(On) /\ ordered \in Seq(On) /\ On \subseteq Names
      /\ mark \in [Names -> 0..2] /\ left \in [Names -> SUBSET Names]
      /\ deps \in [Names -> SUBSET Names] /\ roots \subseteq On
  BY DEF IInv, TypeOK, On
<1>2. /\ Len(path) \in Nat /\ Len(ordered) \in Nat
      /\ \A i \in 1..Len(path) : path[i] \in On
      /\ \A i \in 1..Len(ordered) : ordered[i] \in On
      /\ path = <<>> <=> Len(path) = 0
  BY <1>1, EmptySeq
<1> QED BY <1>1, <1>2 DEF Typed

\* What passing a name changes in the loops.
LEMMA PassLoops ==
  ASSUME IInv, NEW n \in Names, Pass(n)
  PROVE  /\ left' \in [Names -> SUBSET Names] /\ roots' \subseteq roots
         /\ \A m \in Names : (\A i \in 1..Len(path) : path[i] # m) => left'[m] = left[m]
         /\ \A i \in 1..Len(path) : i < Len(path) => left'[path[i]] = left[path[i]]
         /\ path # <<>> => /\ left'[path[Len(path)]] = left[path[Len(path)]] \ {n}
                           /\ roots' = roots
         /\ path = <<>> => left' = left /\ roots' = roots \ {n}
<1>t. Typed
  BY PathTyped
<1> USE <1>t DEF Typed
<1>1. CASE path = <<>>
  BY <1>1 DEF Pass, IInv, TypeOK
<1>2. CASE path # <<>>
  <2>1. /\ left' = [left EXCEPT ![path[Len(path)]] = left[path[Len(path)]] \ {n}]
        /\ roots' = roots
    BY <1>2 DEF Pass
  <2>2. Len(path) \in 1..Len(path) /\ path[Len(path)] \in Names
    BY <1>2
  <2>3. left \in [Names -> SUBSET Names]
    BY DEF IInv, TypeOK
  <2>4. left' \in [Names -> SUBSET Names]
    BY <2>1, <2>2, <2>3
  <2>5. \A m \in Names : (\A i \in 1..Len(path) : path[i] # m) => left'[m] = left[m]
    BY <2>1, <2>2, <2>3
  <2>6. \A i \in 1..Len(path) : i < Len(path) => path[i] # path[Len(path)]
    BY <2>2 DEF IInv, Search, PathMarked
  <2>7. \A i \in 1..Len(path) : i < Len(path) => left'[path[i]] = left[path[i]]
    BY <2>1, <2>3, <2>6
  <2>8. left'[path[Len(path)]] = left[path[Len(path)]] \ {n}
    BY <2>1, <2>2, <2>3
  <2> QED BY <1>2, <2>1, <2>4, <2>5, <2>7, <2>8
<1> QED BY <1>1, <1>2

LEMMA AgainPreserves ==
  ASSUME IInv, NEW n \in Names, Again(n)
  PROVE  IInv'
<1>t. Typed
  BY PathTyped
<1> USE <1>t DEF Typed
<1>0. /\ phase = "resolve" /\ mark[n] = 2 /\ Pass(n)
      /\ UNCHANGED <<world, phase, failed, mark, path, ordered, next, up, http, handlers, pool>>
  BY DEF Again, Take
<1>1. TypeOK'
  BY <1>0, PassLoops DEF IInv, TypeOK, world
<1>2. PathMarked' /\ OrderFirst' /\ SearchOver'
  BY <1>0 DEF IInv, Search, PathMarked, OrderFirst, SearchOver, world
<1>3. LoopsKeep'
  <2>1. \A m \in Names : mark[m] = 0 => left'[m] = deps[m]
    BY <1>0, PassLoops DEF IInv, Search, PathMarked, LoopsKeep
  <2>2. ASSUME NEW i \in 1..Len(path), NEW d \in deps[path[i]]
        PROVE  d \in left'[path[i]] \/ mark[d] = 2 \/ (i < Len(path) /\ d = path[i + 1])
    <3>1. d \in left[path[i]] \/ mark[d] = 2 \/ (i < Len(path) /\ d = path[i + 1])
      BY DEF IInv, Search, LoopsKeep
    <3>2. CASE i = Len(path)
      BY <3>1, <3>2, <1>0, PassLoops
    <3>3. CASE i < Len(path)
      BY <3>1, <3>3, <1>0, PassLoops
    <3> QED BY <3>2, <3>3
  <2>3. ASSUME NEW m \in On PROVE m \in roots' \/ mark[m] = 2 \/ (path # <<>> /\ m = path[1])
    BY <1>0, PassLoops DEF IInv, Search, LoopsKeep
  <2> QED BY <1>0, <2>1, <2>2, <2>3 DEF LoopsKeep, On, world
<1>4. Cursor' /\ Listener'
  BY <1>0, SearchingKept
<1> QED BY <1>1, <1>2, <1>3, <1>4 DEF IInv, Search

LEMMA DescendPreserves ==
  ASSUME IInv, NEW n \in Names, Descend(n)
  PROVE  IInv'
<1>t. Typed
  BY PathTyped
<1> USE <1>t DEF Typed
<1>0. /\ phase = "resolve" /\ mark[n] = 0 /\ n \in On /\ Pass(n)
      /\ mark' = [mark EXCEPT ![n] = 1] /\ path' = Append(path, n)
      /\ UNCHANGED <<world, phase, failed, ordered, next, up, http, handlers, pool>>
  BY DEF Descend, Take, On
<1>1. /\ path' \in Seq(On) /\ Len(path') = Len(path) + 1 /\ DOMAIN path' = 1..(Len(path) + 1)
      /\ \A i \in 1..Len(path) : path'[i] = path[i]
      /\ path'[Len(path) + 1] = n
  BY <1>0 DEF IInv, TypeOK, On
<1>2. mark \in [Names -> 0..2] /\ mark' \in [Names -> 0..2]
  BY <1>0 DEF IInv, TypeOK
<1>3. mark'[n] = 1 /\ \A m \in Names : m # n => mark'[m] = mark[m]
  BY <1>0, <1>2
<1>4. \A i \in 1..Len(path) : path[i] # n
  BY <1>0 DEF IInv, Search, PathMarked
<1>5. TypeOK'
  BY <1>0, <1>1, <1>2, PassLoops DEF IInv, TypeOK, world, On
<1>6. PathMarked'
  <2>1. \A i \in 1..Len(path) : mark'[path[i]] = 1
    BY <1>3, <1>4 DEF IInv, Search, PathMarked
  <2>2. \A i \in 1..(Len(path) + 1) : i \in 1..Len(path) \/ i = Len(path) + 1
    OBVIOUS
  <2>3. \A i \in 1..(Len(path) + 1) : mark'[path'[i]] = 1
    BY <1>1, <1>3, <2>1, <2>2
  <2>4. ASSUME NEW i \in 1..(Len(path) + 1), NEW j \in 1..(Len(path) + 1),
               path'[i] = path'[j]
        PROVE  i = j
    <3>1. CASE i \in 1..Len(path) /\ j \in 1..Len(path)
      BY <3>1, <2>4, <1>1 DEF IInv, Search, PathMarked
    <3>2. CASE i = Len(path) + 1 /\ j \in 1..Len(path)
      BY <3>2, <2>4, <1>1, <1>4
    <3>3. CASE i \in 1..Len(path) /\ j = Len(path) + 1
      BY <3>3, <2>4, <1>1, <1>4
    <3> QED BY <3>1, <3>2, <3>3, <2>2
  <2> QED BY <1>1, <2>3, <2>4 DEF PathMarked
<1>7. OrderFirst'
  <2>1. \A m \in Names : mark'[m] = 2 <=> mark[m] = 2
    BY <1>0, <1>2, <1>3
  <2> QED BY <1>0, <2>1 DEF IInv, Search, OrderFirst, world
<1>8. LoopsKeep'
  <2>1. \A m \in Names : mark'[m] = 0 => left'[m] = deps[m]
    <3> SUFFICES ASSUME NEW m \in Names, mark'[m] = 0 PROVE left'[m] = deps[m]
      OBVIOUS
    <3>1. m # n /\ mark[m] = 0
      BY <1>3
    <3>2. \A i \in 1..Len(path) : path[i] # m
      BY <3>1 DEF IInv, Search, PathMarked
    <3> QED BY <3>1, <3>2, <1>0, PassLoops DEF IInv, Search, LoopsKeep
  <2>2. left'[n] = deps[n]
    BY <1>0, <1>4, PassLoops DEF IInv, Search, LoopsKeep
  <2>3. ASSUME NEW i \in 1..(Len(path) + 1), NEW d \in deps[path'[i]]
        PROVE  d \in left'[path'[i]] \/ mark'[d] = 2 \/ (i < Len(path) + 1 /\ d = path'[i + 1])
    <3>1. CASE i = Len(path) + 1
      BY <3>1, <1>1, <2>2
    <3>2. CASE i \in 1..Len(path)
      <4>1. d \in deps[path[i]] /\ d \in Names
        BY <3>2, <1>1 DEF IInv, TypeOK
      <4>2. d \in left[path[i]] \/ mark[d] = 2 \/ (i < Len(path) /\ d = path[i + 1])
        BY <3>2, <4>1 DEF IInv, Search, LoopsKeep
      <4>3. mark[d] = 2 => mark'[d] = 2
        BY <4>1, <1>0, <1>3
      <4>4. CASE i = Len(path)
        BY <4>2, <4>3, <4>4, <3>2, <1>0, <1>1, PassLoops
      <4>5. CASE i < Len(path)
        BY <4>2, <4>3, <4>5, <3>2, <1>0, <1>1, PassLoops
      <4> QED BY <3>2, <4>4, <4>5
    <3> QED BY <3>1, <3>2
  <2>4. ASSUME NEW m \in On PROVE m \in roots' \/ mark'[m] = 2 \/ (path' # <<>> /\ m = path'[1])
    <3>1. m \in roots \/ mark[m] = 2 \/ (path # <<>> /\ m = path[1])
      BY DEF IInv, Search, LoopsKeep
    <3>2. mark[m] = 2 => mark'[m] = 2
      BY <1>0, <1>3 DEF On, IInv, TypeOK
    <3>3. path' # <<>>
      BY <1>1
    <3>4. CASE path = <<>>
      BY <3>1, <3>2, <3>3, <3>4, <1>0, <1>1, PassLoops
    <3>5. CASE path # <<>>
      BY <3>1, <3>2, <3>3, <3>5, <1>0, <1>1, PassLoops
    <3> QED BY <3>4, <3>5
  <2> QED BY <1>0, <1>1, <2>1, <2>3, <2>4 DEF LoopsKeep, On, world
<1>9. SearchOver' /\ Cursor' /\ Listener'
  BY <1>0, SearchingKept DEF SearchOver
<1> QED BY <1>5, <1>6, <1>7, <1>8, <1>9 DEF IInv, Search

\* A module is placed when nothing of its loop is left: all it depends on is done.
LEMMA PlacePreserves ==
  ASSUME IInv, Place
  PROVE  IInv'
<1>t. Typed
  BY PathTyped
<1> USE <1>t DEF Typed
<1> DEFINE k == Len(path)  n == path[k]
<1>0. /\ phase = "resolve" /\ path # <<>> /\ left[n] = {}
      /\ mark' = [mark EXCEPT ![n] = 2] /\ ordered' = Append(ordered, n)
      /\ path' = SubSeq(path, 1, k - 1)
      /\ UNCHANGED <<world, phase, failed, left, roots, next, up, http, handlers, pool>>
  BY DEF Place, Loop
<1>k. k \in Nat /\ k >= 1 /\ (k = 1 \/ k > 1)
  <2>1. k \in Nat /\ k # 0
    BY <1>0
  <2> HIDE <1>t DEF k
  <2> QED BY <2>1
<1>1. k \in 1..k /\ n \in On /\ n \in Names /\ mark[n] = 1
  BY <1>0 DEF IInv, Search, PathMarked
<1>2. /\ path' \in Seq(On) /\ Len(path') = k - 1 /\ DOMAIN path' = 1..(k - 1)
      /\ \A i \in 1..(k - 1) : path'[i] = path[i]
  <2>1. k - 1 \in Int
    BY <1>1
  <2>2. \A i \in 1..(k - 1) : path[i] \in On
    OBVIOUS
  <2>3. /\ path' \in Seq(On)
        /\ Len(path') = IF 1 <= k - 1 THEN (k - 1) - 1 + 1 ELSE 0
        /\ \A i \in 1..((k - 1) - 1 + 1) : path'[i] = path[1 + i - 1]
    BY <1>0, <2>1, <2>2, SubSeqProperties
  <2>4. Len(path') = k - 1
    BY <1>k, <2>3
  <2>5. \A i \in 1..(k - 1) : path'[i] = path[i]
    BY <1>1, <2>3
  <2> QED BY <2>3, <2>4, <2>5
<1>3. /\ ordered' \in Seq(On) /\ Len(ordered') = Len(ordered) + 1
      /\ DOMAIN ordered' = 1..(Len(ordered) + 1)
      /\ \A i \in 1..Len(ordered) : ordered'[i] = ordered[i]
      /\ ordered'[Len(ordered) + 1] = n
  BY <1>0, <1>1 DEF IInv, TypeOK, On
<1>4. /\ mark' \in [Names -> 0..2]
      /\ mark'[n] = 2 /\ \A m \in Names : m # n => mark'[m] = mark[m]
  BY <1>0, <1>1 DEF IInv, TypeOK
<1>5. TypeOK'
  BY <1>0, <1>2, <1>3, <1>4 DEF IInv, TypeOK, world, On
<1>6. PathMarked'
  <2>1. \A i \in 1..(k - 1) : path[i] # n
    BY <1>1 DEF IInv, Search, PathMarked
  <2> QED BY <1>2, <1>4, <2>1 DEF IInv, Search, PathMarked
<1>7. OrderFirst'
  <2>1. \A i \in 1..Len(ordered) : ordered[i] # n
    BY <1>1 DEF IInv, Search, OrderFirst
  <2>2. ASSUME NEW m \in Names
        PROVE  mark'[m] = 2 <=> \E i \in 1..(Len(ordered) + 1) : ordered'[i] = m
    <3>1. CASE m = n
      BY <3>1, <1>3, <1>4
    <3>2. CASE m # n
      <4>1. mark'[m] = 2 <=> \E i \in 1..Len(ordered) : ordered[i] = m
        BY <3>2, <1>4 DEF IInv, Search, OrderFirst
      <4> QED BY <4>1, <3>2, <1>3
    <3> QED BY <3>1, <3>2
  <2>3. \A i, j \in 1..(Len(ordered) + 1) : ordered'[i] = ordered'[j] => i = j
    BY <1>3, <2>1 DEF IInv, Search, OrderFirst
  <2>4. ASSUME NEW i \in 1..(Len(ordered) + 1), NEW d \in deps[ordered'[i]]
        PROVE  \E j \in 1..(i - 1) : ordered'[j] = d
    <3>1. CASE i \in 1..Len(ordered)
      <4>1. PICK j \in 1..(i - 1) : ordered[j] = d
        BY <3>1, <1>3 DEF IInv, Search, OrderFirst
      <4>2. j \in 1..Len(ordered)
        BY <3>1
      <4> QED BY <4>1, <4>2, <1>3
    <3>2. CASE i = Len(ordered) + 1
      <4>1. d \in deps[n] /\ d \in Names
        BY <3>2, <1>1, <1>3 DEF IInv, TypeOK
      <4>2. d \in left[n] \/ mark[d] = 2 \/ (k < k /\ d = path[k + 1])
        BY <4>1, <1>1 DEF IInv, Search, LoopsKeep
      <4>3. mark[d] = 2
        BY <4>2, <1>0, <1>1
      <4>4. PICK j \in 1..Len(ordered) : ordered[j] = d
        BY <4>1, <4>3 DEF IInv, Search, OrderFirst
      <4> QED BY <4>4, <3>2, <1>3
    <3> QED BY <3>1, <3>2
  <2> QED BY <1>0, <1>3, <2>2, <2>3, <2>4 DEF OrderFirst, world
<1>8. LoopsKeep'
  <2>1. \A m \in Names : mark'[m] = 0 => left[m] = deps[m]
    BY <1>4 DEF IInv, Search, LoopsKeep
  <2>2. ASSUME NEW i \in 1..(k - 1), NEW d \in deps[path'[i]]
        PROVE  d \in left[path'[i]] \/ mark'[d] = 2 \/ (i < k - 1 /\ d = path'[i + 1])
    <3>1. i \in 1..Len(path) /\ path'[i] = path[i] /\ d \in deps[path[i]] /\ d \in Names
      BY <1>2 DEF IInv, TypeOK
    <3>2. d \in left[path[i]] \/ mark[d] = 2 \/ (i < k /\ d = path[i + 1])
      BY <3>1 DEF IInv, Search, LoopsKeep
    <3>3. mark[d] = 2 => mark'[d] = 2
      BY <3>1, <1>4
    <3>4. CASE i = k - 1
      BY <3>1, <3>2, <3>3, <3>4, <1>1, <1>4
    <3>5. CASE i < k - 1
      BY <3>1, <3>2, <3>3, <3>5, <1>1, <1>2
    <3> QED BY <3>4, <3>5
  <2>3. ASSUME NEW m \in On PROVE m \in roots \/ mark'[m] = 2 \/ (path' # <<>> /\ m = path'[1])
    <3>1. m \in roots \/ mark[m] = 2 \/ m = path[1]
      BY DEF IInv, Search, LoopsKeep
    <3>2. mark[m] = 2 => mark'[m] = 2
      BY <1>4 DEF On, IInv, TypeOK
    <3>3. CASE k = 1
      BY <3>1, <3>2, <3>3, <1>4
    <3>4. CASE k > 1
      BY <3>1, <3>2, <3>4, <1>2
    <3> QED BY <3>3, <3>4, <1>k
  <2> QED BY <1>0, <1>2, <2>1, <2>2, <2>3 DEF LoopsKeep, On, world
<1>9. SearchOver' /\ Cursor' /\ Listener'
  BY <1>0, SearchingKept DEF SearchOver
<1> QED BY <1>5, <1>6, <1>7, <1>8, <1>9 DEF IInv, Search

LEMMA ResolvedPreserves ==
  ASSUME IInv, Resolved
  PROVE  IInv'
<1> USE DEF Resolved, world, search
<1>1. TypeOK'
  BY DEF IInv, TypeOK
<1>2. Search'
  BY DEF IInv, Search, PathMarked, OrderFirst, LoopsKeep, SearchOver, On
<1>3. Cursor' /\ Listener'
  BY DEF IInv, Cursor, Listener
<1> QED BY <1>1, <1>2, <1>3 DEF IInv

-----------------------------------------------------------------------------
(* Start, service and shutdown                                             *)

LEMMA UpToGrows ==
  ASSUME NEW k \in Nat
  PROVE  UpTo(k + 1) = UpTo(k) \cup {ordered[k + 1]}
  BY DEF UpTo

LEMMA UpToShrinks ==
  ASSUME IInv, NEW k \in 1..Len(ordered)
  PROVE  UpTo(k) \ {ordered[k]} = UpTo(k - 1)
<1>t. Typed
  BY PathTyped
<1> USE <1>t DEF Typed
<1>1. \A i \in 1..(k - 1) : ordered[i] # ordered[k]
  BY DEF IInv, Search, OrderFirst
<1> QED BY <1>1 DEF UpTo

LEMMA StartModulePreserves ==
  ASSUME IInv, StartModule
  PROVE  IInv'
<1>t. Typed
  BY PathTyped
<1> USE <1>t DEF Typed, StartModule, world, search
<1>1. next \in 1..Len(ordered) /\ up = UpTo(next - 1) /\ UNCHANGED ordered
  BY DEF IInv, Cursor
<1>2. TypeOK'
  BY <1>1 DEF IInv, TypeOK, On
<1>3. Search'
  BY SearchKept
<1>4. up' = UpTo(next)
  <2>1. next - 1 \in Nat /\ (next - 1) + 1 = next
    BY <1>1
  <2> QED BY <1>1, <2>1, UpToGrows
<1>5. Cursor'
  <2>1. next' - 1 = next /\ next' \in 1..(Len(ordered) + 1)
    BY <1>1
  <2> QED BY <1>1, <1>4, <2>1 DEF Cursor, UpTo
<1>6. Listener'
  BY DEF IInv, Listener
<1> QED BY <1>2, <1>3, <1>5, <1>6 DEF IInv

LEMMA StopModulePreserves ==
  ASSUME IInv, StopModule
  PROVE  IInv'
<1>t. Typed
  BY PathTyped
<1> USE <1>t DEF Typed, StopModule, world, search
<1>1. next \in 1..Len(ordered) /\ up = UpTo(next) /\ UNCHANGED ordered
  BY DEF IInv, Cursor
<1>2. TypeOK'
  BY <1>1 DEF IInv, TypeOK
<1>3. Search'
  BY SearchKept
<1>4. up' = UpTo(next - 1)
  BY <1>1, UpToShrinks
<1>5. Cursor'
  <2>1. next' = next - 1 /\ next' \in 0..Len(ordered)
    BY <1>1
  <2> QED BY <1>1, <1>4, <2>1 DEF Cursor, UpTo
<1>6. Listener'
  BY DEF IInv, Listener
<1> QED BY <1>2, <1>3, <1>5, <1>6 DEF IInv

Handling == \E h \in Handlers : Handle(h)

\* Handlers run from the service on, and go their own way.
LEMMA HandlersApart ==
  ASSUME IInv, Handling
  PROVE  /\ phase \notin {"resolve", "register", "start", "exit"}
         /\ UNCHANGED <<world, phase, failed, search, ordered, next, up, http, pool>>
         /\ handlers' \in [Handlers -> {"none", "runs", "queries"}]
<1>1. PICK h \in Handlers : Handle(h)
  BY DEF Handling
<1>2. handlers \in [Handlers -> {"none", "runs", "queries"}]
  BY DEF IInv, TypeOK
<1>3. PICK from, to \in {"none", "runs", "queries"} :
        HandlerGoes(h, from, to) /\ (from = "none" => http = "listening")
  BY <1>1 DEF Handle, Accept, Answer, Acquire, Release
<1>4. phase \notin {"resolve", "register", "start", "exit"}
  BY <1>3 DEF HandlerGoes, IInv, Listener, NoHandlers
<1> QED BY <1>2, <1>3, <1>4 DEF HandlerGoes

\* Steps between the loops.
Between == Register \/ Started \/ Listen \/ Handling \/ Signal \/ Drained \/ Stopped

LEMMA BetweenPreserves ==
  ASSUME IInv, Between
  PROVE  IInv'
<1>t. Typed
  BY PathTyped
<1> USE <1>t DEF Typed, world
<1>1. /\ UNCHANGED <<world, failed, search, ordered>>
      /\ phase \notin {"resolve", "exit"} /\ phase' \notin {"resolve", "exit"}
  <2>1. CASE Handling
    BY <2>1, HandlersApart DEF search
  <2>2. CASE Register \/ Started \/ Listen \/ Signal \/ Drained \/ Stopped
    BY <2>2 DEF Register, Started, Listen, Signal, Drained, Stopped, search
  <2> QED BY <2>1, <2>2 DEF Between
<1>2. Search'
  BY <1>1, SearchKept
<1>3. TypeOK'
  <2>1. /\ phase' \in {"register", "start", "serve", "drain", "stop", "close"}
        /\ handlers' \in [Handlers -> {"none", "runs", "queries"}] /\ pool' \in BOOLEAN
        /\ http' \in {"new", "listening", "broken", "closed"}
        /\ next' \in 0..(Len(ordered) + 1) /\ UNCHANGED up
    <3>1. CASE Register \/ Started \/ Signal
      BY <3>1 DEF Register, Started, Signal, IInv, TypeOK
    <3>2. CASE Listen \/ Stopped
      BY <3>2 DEF Listen, Stopped, IInv, TypeOK
    <3>4. CASE Drained
      <4>1. Len(ordered) \in 0..(Len(ordered) + 1)
        OBVIOUS
      <4> QED BY <3>4, <4>1 DEF Drained, IInv, TypeOK
    <3>3. CASE Handling
      BY <3>3, <1>1, HandlersApart DEF IInv, TypeOK
    <3> QED BY <3>1, <3>2, <3>3, <3>4 DEF Between
  <2> QED BY <1>1, <2>1 DEF IInv, TypeOK, search
<1>4. Cursor'
  <2>1. CASE Handling
    BY <2>1, HandlersApart DEF IInv, Cursor, UpTo
  <2> QED BY <1>1, <2>1 DEF Between, Register, Started, Listen, Signal, Drained, Stopped,
                            IInv, Cursor, UpTo
<1>5. Listener'
  <2>1. CASE Handling
    BY <2>1, HandlersApart DEF IInv, Listener
  <2> QED BY <1>1, <2>1 DEF Between, Register, Started, Listen, Signal, Drained, Stopped,
                            IInv, Listener
<1> QED BY <1>2, <1>3, <1>4, <1>5 DEF IInv

Ends == CriticalOff \/ (\E n \in Names : Refuse(n)) \/ StartFails \/ ListenFailed \/ Return

LEMMA EndsPreserve ==
  ASSUME IInv, Ends
  PROVE  IInv'
<1>1. Exit /\ failed' \in BOOLEAN
  BY DEF Ends, CriticalOff, Refuse, StartFails, ListenFailed, Return, Fail, IInv, TypeOK
<1> QED BY <1>1, ExitPreserves

LEMMA NextPreserves == IInv /\ [Next]_vars => IInv'
<1> SUFFICES ASSUME IInv, [Next]_vars PROVE IInv'
  OBVIOUS
<1>1. CASE UNCHANGED vars
  BY <1>1, StillPreserves
<1>2. ASSUME NEW n \in Names, Again(n) PROVE IInv'
  BY <1>2, AgainPreserves
<1>3. ASSUME NEW n \in Names, Descend(n) PROVE IInv'
  BY <1>3, DescendPreserves
<1>4. CASE Place
  BY <1>4, PlacePreserves
<1>5. CASE Resolved
  BY <1>5, ResolvedPreserves
<1>6. CASE StartModule
  BY <1>6, StartModulePreserves
<1>7. CASE StopModule
  BY <1>7, StopModulePreserves
<1>8. CASE Between
  BY <1>8, BetweenPreserves
<1>9. CASE Ends
  BY <1>9, EndsPreserve
<1> QED BY <1>1, <1>2, <1>3, <1>4, <1>5, <1>6, <1>7, <1>8, <1>9
        DEF Next, Go, Resolve, Between, Ends, Handling

LEMMA InvariantHolds == Spec => []IInv
<1>1. Init => IInv
  BY InitHolds
<1>2. IInv /\ [Next]_vars => IInv'
  BY NextPreserves
<1> QED BY <1>1, <1>2, PTL DEF Spec

-----------------------------------------------------------------------------

\* The order that Register, Start and Stop follow has every module that is on exactly
\* once, and each after those it depends on (Resolve, modules.go:60-115).
DependenciesFirst ==
  phase \notin {"resolve", "exit"} =>
    /\ \A n \in On : \E i \in 1..Len(ordered) : ordered[i] = n
    /\ \A i, j \in 1..Len(ordered) : ordered[i] = ordered[j] => i = j
    /\ \A i \in 1..Len(ordered) : \A d \in deps[ordered[i]] : \E j \in 1..(i - 1) : ordered[j] = d

\* Every variable of the registry and of the server keeps its type (Registry,
\* modules.go:37-44, and App, bootstrap.go).
THEOREM RegistryTypes == Spec => []TypeOK
<1>1. IInv => TypeOK
  BY DEF IInv
<1> QED BY <1>1, InvariantHolds, PTL

\* Whatever the modules depend on, a search that ends without an error has ordered
\* all of them, dependencies first (Resolve, modules.go:60-115).
THEOREM DependenciesFirstHolds == Spec => []DependenciesFirst
<1>1. IInv => DependenciesFirst
  <2> SUFFICES ASSUME IInv, phase \notin {"resolve", "exit"} PROVE DependenciesFirst
    BY DEF DependenciesFirst
  <2>1. \A n \in On : n \in Names /\ mark[n] = 2
    BY DEF IInv, TypeOK, Search, SearchOver, LoopsKeep, On
  <2> QED BY <2>1 DEF IInv, Search, OrderFirst, DependenciesFirst
<1> QED BY <1>1, InvariantHolds, PTL

LEMMA PrefixClosed ==
  ASSUME IInv, NEW k \in 0..Len(ordered), up = UpTo(k)
  PROVE  DependenciesUp
<1>t. Typed
  BY PathTyped
<1> USE <1>t DEF Typed
<1> SUFFICES ASSUME NEW n \in up, NEW d \in deps[n] PROVE d \in up
  BY DEF DependenciesUp
<1>1. PICK i \in 1..k : ordered[i] = n
  BY DEF UpTo
<1>2. PICK j \in 1..(i - 1) : ordered[j] = d
  BY <1>1 DEF IInv, Search, OrderFirst
<1> QED BY <1>1, <1>2 DEF UpTo

\* What a running module depends on is running, through every start, service and
\* shutdown and whatever fails in them (Start, Stop, modules.go:124-141).
THEOREM DependenciesUpHolds == Spec => []DependenciesUp
<1>1. IInv => DependenciesUp
  <2> SUFFICES ASSUME IInv PROVE DependenciesUp
    OBVIOUS
  <2>t. Typed
    BY PathTyped
  <2> USE <2>t DEF Typed
  <2>1. CASE up = {}
    BY <2>1 DEF DependenciesUp
  <2>2. CASE phase = "start"
    <3>1. next - 1 \in 0..Len(ordered) /\ up = UpTo(next - 1)
      BY <2>2 DEF IInv, Cursor
    <3> QED BY <3>1, PrefixClosed
  <2>3. CASE phase \in {"serve", "drain"}
    <3>1. Len(ordered) \in 0..Len(ordered) /\ up = UpTo(Len(ordered))
      BY <2>3 DEF IInv, Cursor
    <3> QED BY <3>1, PrefixClosed
  <2>4. CASE phase = "stop"
    <3>1. next \in 0..Len(ordered) /\ up = UpTo(next)
      BY <2>4 DEF IInv, Cursor
    <3> QED BY <3>1, PrefixClosed
  <2> QED BY <2>1, <2>2, <2>3, <2>4 DEF IInv, TypeOK, Cursor
<1> QED BY <1>1, InvariantHolds, PTL

\* HTTP is served only while every module runs, and modules run only while the pool
\* is open (Run, bootstrap.go), for any number of modules and requests.
THEOREM ServedWholeHolds == Spec => []ServedWhole
<1>1. IInv => ServedWhole
  <2> SUFFICES ASSUME IInv PROVE ServedWhole
    OBVIOUS
  <2>t. Typed
    BY PathTyped
  <2> USE <2>t DEF Typed
  <2>1. ASSUME http = "listening" PROVE up = added \ off
    <3>1. phase = "serve" /\ up = UpTo(Len(ordered))
      BY <2>1 DEF IInv, TypeOK, Listener, Cursor
    <3>2. \A n \in On : n \in Names /\ mark[n] = 2
      BY <3>1 DEF IInv, TypeOK, Search, SearchOver, LoopsKeep, On
    <3>3. \A n \in On : \E i \in 1..Len(ordered) : ordered[i] = n
      BY <3>2 DEF IInv, Search, OrderFirst
    <3> QED BY <3>1, <3>3 DEF UpTo, On
  <2>2. up # {} => pool
    BY DEF IInv, TypeOK, Cursor, Listener
  <2> QED BY <2>1, <2>2 DEF ServedWhole
<1> QED BY <1>1, InvariantHolds, PTL

-----------------------------------------------------------------------------
(* What Resolve accepts                                                    *)

\* The path of the search follows dependencies, and no other module is marked 1.
PathLinked ==
  /\ \A n \in Names : left[n] \subseteq deps[n]
  /\ \A i \in 1..Len(path) : i < Len(path) => path[i + 1] \in deps[path[i]]
  /\ \A n \in Names : mark[n] = 1 => \E i \in 1..Len(path) : path[i] = n

\* What Resolve has found wrong, and what it has found right, is so.
Verdict ==
  /\ failed => Unusable
  /\ phase \notin {"resolve", "exit"} => critical \cap off = {}

\* Every nonempty set of numbers has a least one; induction, here and below, is the
\* choice of a least counterexample.
LEMMA NatMin ==
  ASSUME NEW T \in SUBSET Nat, T # {}
  PROVE  \E n \in T : \A m \in T : n <= m
<1> DEFINE Cuts == {1..n : n \in T}
<1>1. \A n \in T : 1..n \in FiniteSubsetsOf(Nat)
  BY FS_Interval DEF FiniteSubsetsOf
<1>2. PICK c \in Cuts : \A d \in Cuts : <<d, c>> \notin StrictSubsetOrdering(Nat)
  <2>1. IsWellFoundedOn(StrictSubsetOrdering(Nat), FiniteSubsetsOf(Nat))
    BY FS_StrictSubsetOrderingWellFounded
  <2>2. Cuts \subseteq FiniteSubsetsOf(Nat) /\ Cuts # {}
    BY <1>1
  <2> HIDE DEF Cuts
  <2> QED BY <2>1, <2>2, WFMin
<1>3. PICK n \in T : c = 1..n
  OBVIOUS
<1>4. ASSUME NEW m \in T, ~ (n <= m) PROVE FALSE
  <2>1. 1..m \subseteq 1..n /\ n \in 1..n /\ n \notin 1..m
    BY <1>4
  <2>2. 1..m # 1..n /\ 1..m \in SUBSET Nat /\ 1..n \in SUBSET Nat
    BY <2>1
  <2>3. <<1..m, c>> \in StrictSubsetOrdering(Nat)
    BY <2>1, <2>2, <1>3 DEF StrictSubsetOrdering
  <2> QED BY <2>3, <1>2
<1> QED BY <1>4

LEMMA LeastIsLeast ==
  ASSUME NEW T \in SUBSET Nat, T # {}
  PROVE  Least(T) \in T /\ \A m \in T : Least(T) <= m
  BY NatMin DEF Least

\* Needed has the modules that are on, is closed, and is in every closed set.
LEMMA NeededClosed ==
  ASSUME IInv
  PROVE  /\ On \subseteq Needed /\ Needed \subseteq Names
         /\ \A n \in Needed : deps[n] \subseteq Needed
<1>t. Typed
  BY PathTyped
<1>1. On \subseteq Needed /\ Needed \subseteq Names
  BY <1>t DEF Needed, On, Typed
<1>2. ASSUME NEW n \in Needed, NEW d \in deps[n] PROVE d \in Needed
  BY <1>t DEF Needed, On, Typed
<1> QED BY <1>1, <1>2

LEMMA NeededLeast ==
  ASSUME NEW S \in SUBSET Names, On \subseteq S, \A n \in S : deps[n] \subseteq S
  PROVE  Needed \subseteq S
  BY DEF Needed, On

\* The module a loop is at is one that it has left.
LEMMA TakenIsLeft ==
  ASSUME IInv, NEW n \in Names, Take(n)
  PROVE  /\ path = <<>> => n \in roots
         /\ path # <<>> => n \in left[path[Len(path)]]
<1>t. Typed
  BY PathTyped
<1>1. Loop # {} /\ n = Least(Loop)
  BY DEF Take
<1>2. Loop \in SUBSET Nat
  <2>1. CASE path = <<>>
    BY <2>1, <1>t, NameAssumption DEF Loop, Typed
  <2>2. CASE path # <<>>
    <3>1. path[Len(path)] \in Names
      BY <2>2, <1>t DEF Typed
    <3> QED BY <3>1, <2>2, <1>t, NameAssumption DEF Loop, Typed
  <2> QED BY <2>1, <2>2
<1>3. n \in Loop
  BY <1>1, <1>2, LeastIsLeast
<1> QED BY <1>3 DEF Loop

\* A module that the search is at is needed.
LEMMA TakenIsNeeded ==
  ASSUME IInv, PathLinked, NEW n \in Names, Take(n)
  PROVE  n \in Needed
<1>t. Typed
  BY PathTyped
<1>1. CASE path = <<>>
  BY <1>1, <1>t, TakenIsLeft, NeededClosed DEF Typed
<1>2. CASE path # <<>>
  <2>1. path[Len(path)] \in On /\ path[Len(path)] \in Names
    BY <1>2, <1>t DEF Typed
  <2>2. n \in deps[path[Len(path)]]
    BY <2>1, <1>2, TakenIsLeft DEF PathLinked
  <2> QED BY <2>1, <2>2, NeededClosed
<1> QED BY <1>1, <1>2

\* A module that the search meets again on its own path needs itself.
LEMMA MetAgainIsCyclic ==
  ASSUME IInv, PathLinked, NEW n \in Names, Take(n), mark[n] = 1
  PROVE  Cyclic
<1>t. Typed
  BY PathTyped
<1> DEFINE k == Len(path)
<1>1. PICK i \in 1..k : path[i] = n
  BY DEF PathLinked
<1>2. k \in Nat /\ path # <<>> /\ k \in 1..k /\ path[k] \in Names
  BY <1>1, <1>t DEF Typed
<1>3. n \in deps[path[k]]
  BY <1>2, TakenIsLeft DEF PathLinked
<1> DEFINE S == {path[j] : j \in i..k}
<1>4. S \subseteq Needed /\ S # {} /\ n \in S
  <2>1. \A j \in i..k : path[j] \in On
    BY <1>t DEF Typed
  <2> QED BY <2>1, <1>1, <1>2, NeededClosed
<1>5. ASSUME NEW m \in S PROVE deps[m] \cap S # {}
  <2>1. PICK j \in i..k : m = path[j]
    OBVIOUS
  <2>2. CASE j = k
    BY <2>1, <2>2, <1>3, <1>4
  <2>3. CASE j < k
    <3>1. path[j + 1] \in deps[path[j]]
      BY <2>3, <1>2 DEF PathLinked
    <3>2. path[j + 1] \in S
      BY <2>3, <1>2
    <3> QED BY <3>1, <3>2, <2>1
  <2> QED BY <2>2, <2>3, <1>2
<1> HIDE DEF S
<1> QED BY <1>4, <1>5 DEF Cyclic

\* Whatever Resolve refuses is unusable.
LEMMA RefusedIsUnusable ==
  ASSUME IInv, PathLinked, CriticalOff \/ \E n \in Names : Refuse(n)
  PROVE  Unusable
<1>1. CASE CriticalOff
  BY <1>1 DEF CriticalOff, Unusable
<1>2. ASSUME NEW n \in Names, Refuse(n) PROVE Unusable
  <2>1. Take(n) /\ (mark[n] = 1 \/ n \notin added \ off)
    BY <1>2 DEF Refuse
  <2>2. CASE mark[n] = 1
    BY <2>1, <2>2, MetAgainIsCyclic DEF Unusable
  <2>3. CASE n \notin added \ off
    BY <2>1, <2>3, TakenIsNeeded DEF Unusable
  <2> QED BY <2>1, <2>2, <2>3
<1> QED BY <1>1, <1>2

\* A search that ends has met no cycle: of the modules of one, the first in the order
\* would need one before it.
LEMMA AcceptedIsUsable ==
  ASSUME IInv, Verdict, phase \notin {"resolve", "exit"}
  PROVE  ~ Unusable
<1>t. Typed
  BY PathTyped
<1>1. \A n \in On : \E i \in 1..Len(ordered) : ordered[i] = n
  <2>1. \A n \in On : n \in Names /\ mark[n] = 2
    BY DEF IInv, TypeOK, Search, SearchOver, LoopsKeep, On
  <2> QED BY <2>1 DEF IInv, Search, OrderFirst
<1>2. Needed \subseteq On
  <2>1. ASSUME NEW n \in On, NEW d \in deps[n] PROVE d \in On
    <3>1. PICK i \in 1..Len(ordered) : ordered[i] = n
      BY <1>1
    <3>2. PICK j \in 1..(i - 1) : ordered[j] = d
      BY <3>1 DEF IInv, Search, OrderFirst
    <3>3. j \in 1..Len(ordered)
      BY <1>t DEF Typed
    <3> QED BY <3>2, <3>3, <1>t DEF Typed
  <2> QED BY <2>1, <1>t, NeededLeast DEF Typed
<1>3. ~ Cyclic
  <2> SUFFICES ASSUME NEW S \in SUBSET Needed, S # {}, \A n \in S : deps[n] \cap S # {}
               PROVE  FALSE
    BY DEF Cyclic
  <2> DEFINE Places == {i \in 1..Len(ordered) : ordered[i] \in S}
  <2>1. Places \in SUBSET Nat /\ Places # {}
    BY <1>1, <1>2
  <2>2. PICK i \in Places : \A j \in Places : i <= j
    BY <2>1, NatMin
  <2>3. PICK d \in deps[ordered[i]] : d \in S
    OBVIOUS
  <2>4. PICK j \in 1..(i - 1) : ordered[j] = d
    BY DEF IInv, Search, OrderFirst
  <2>5. j \in Places /\ j < i
    BY <2>3, <2>4, <1>t DEF Typed
  <2> QED BY <2>2, <2>5, <2>1
<1>4. critical \cap off = {}
  BY DEF Verdict
<1> QED BY <1>2, <1>3, <1>4 DEF Unusable, On

LEMMA VerdictPreserved ==
  ASSUME IInv, PathLinked, Verdict, [Next]_vars
  PROVE  Verdict'
<1>w. UNCHANGED world
  BY HandlersApart DEF Next, Go, Resolve, CriticalOff, Again, Refuse, Descend, Place, Resolved, Register,
         StartModule, Started, ListenFailed, Drained, StopModule, Stopped, Return, StartFails,
         Listen, Handling, Signal, Fail, Exit, vars
<1>1. Unusable' <=> Unusable
  BY <1>w DEF Unusable, Needed, Cyclic, world
<1>2. CASE CriticalOff \/ \E n \in Names : Refuse(n)
  <2>1. phase' = "exit"
    BY <1>2 DEF CriticalOff, Refuse, Fail, Exit
  <2> QED BY <2>1, <1>1, <1>2, RefusedIsUnusable DEF Verdict
<1>3. CASE ~ (CriticalOff \/ \E n \in Names : Refuse(n))
  <2>1. failed' = failed
    BY <1>3, HandlersApart
       DEF Next, Go, Resolve, Again, Descend, Place, Resolved, Register, StartModule, Started,
           ListenFailed, Drained, StopModule, Stopped, Return, StartFails, Listen, Handling,
           Signal, Exit, vars
  <2>2. phase' \notin {"resolve", "exit"} => phase \notin {"resolve", "exit"} \/ critical \cap off = {}
    <3>1. CASE Handling
      BY <3>1, HandlersApart
    <3>2. CASE ~ Handling
      BY <1>3, <3>2 DEF Next, Go, Resolve, Again, Descend, Place, Resolved, Register,
         StartModule, Started, ListenFailed, Drained, StopModule, Stopped, Return, StartFails,
         Listen, Handling, Signal, Exit, vars
    <3> QED BY <3>1, <3>2
  <2>3. UNCHANGED <<critical, off>>
    BY <1>w DEF world
  <2> QED BY <2>1, <2>2, <2>3, <1>1 DEF Verdict
<1> QED BY <1>2, <1>3

LEMMA DescendLinks ==
  ASSUME IInv, PathLinked, NEW n \in Names, Descend(n)
  PROVE  PathLinked'
<1>t. Typed
  BY PathTyped
<1> USE <1>t DEF Typed
<1>0. /\ Take(n) /\ mark[n] = 0 /\ n \in On /\ Pass(n)
      /\ mark' = [mark EXCEPT ![n] = 1] /\ path' = Append(path, n) /\ UNCHANGED world
  BY DEF Descend, On
<1>1. /\ Len(path') = Len(path) + 1
      /\ \A i \in 1..Len(path) : path'[i] = path[i]
      /\ path'[Len(path) + 1] = n
  BY <1>0 DEF IInv, TypeOK, On
<1>2. \A m \in Names : left'[m] \subseteq left[m]
  BY <1>0 DEF Pass
<1>3. \A m \in Names : left'[m] \subseteq deps'[m]
  BY <1>0, <1>2 DEF PathLinked, world
<1>4. ASSUME NEW i \in 1..Len(path'), i < Len(path') PROVE path'[i + 1] \in deps'[path'[i]]
  <2>1. CASE i = Len(path)
    <3>1. path # <<>> /\ path[i] \in Names
      BY <2>1, <1>1, <1>4
    <3>2. n \in left[path[i]]
      BY <3>1, <2>1, <1>0, TakenIsLeft
    <3> QED BY <3>1, <3>2, <2>1, <1>0, <1>1 DEF PathLinked, world
  <2>2. CASE i < Len(path)
    <3>1. path[i + 1] \in deps[path[i]] /\ i \in 1..Len(path) /\ i + 1 \in 1..Len(path)
      BY <2>2, <1>1, <1>4 DEF PathLinked
    <3> QED BY <3>1, <1>0, <1>1 DEF world
  <2> QED BY <2>1, <2>2, <1>1, <1>4
<1>5. ASSUME NEW m \in Names, mark'[m] = 1 PROVE \E i \in 1..Len(path') : path'[i] = m
  <2>1. CASE m = n
    BY <2>1, <1>1
  <2>2. CASE m # n
    <3>1. PICK i \in 1..Len(path) : path[i] = m
      BY <2>2, <1>0, <1>5 DEF PathLinked
    <3> QED BY <3>1, <1>1
  <2> QED BY <2>1, <2>2
<1> QED BY <1>3, <1>4, <1>5 DEF PathLinked

LEMMA PlaceLinks ==
  ASSUME IInv, PathLinked, Place
  PROVE  PathLinked'
<1>t. Typed
  BY PathTyped
<1> DEFINE k == Len(path)
<1>0. /\ path # <<>> /\ mark' = [mark EXCEPT ![path[k]] = 2]
      /\ path' = SubSeq(path, 1, k - 1)
      /\ UNCHANGED <<deps, left>>
  BY DEF Place, world
<1>1. k \in Nat /\ k >= 1 /\ path[k] \in Names
  BY <1>0, <1>t DEF Typed
<1>2. Len(path') = k - 1 /\ \A i \in 1..(k - 1) : path'[i] = path[i]
  <2>1. k - 1 \in Int /\ path \in Seq(On) /\ \A i \in 1..(k - 1) : path[i] \in On
    BY <1>1, <1>t DEF Typed
  <2>2. /\ Len(path') = IF 1 <= k - 1 THEN (k - 1) - 1 + 1 ELSE 0
        /\ \A i \in 1..((k - 1) - 1 + 1) : path'[i] = path[1 + i - 1]
    BY <1>0, <2>1, SubSeqProperties
  <2> HIDE DEF k
  <2>3. Len(path') = k - 1
    BY <1>1, <2>2
  <2>4. \A i \in 1..(k - 1) : path'[i] = path[i]
    BY <1>1, <2>2
  <2> QED BY <2>3, <2>4
<1>3. \A n \in Names : left'[n] \subseteq deps'[n]
  BY <1>0 DEF PathLinked
<1>4. \A i \in 1..Len(path') : i < Len(path') => path'[i + 1] \in deps'[path'[i]]
  BY <1>0, <1>1, <1>2 DEF PathLinked
<1>5. ASSUME NEW m \in Names, mark'[m] = 1 PROVE \E i \in 1..Len(path') : path'[i] = m
  <2>1. m # path[k] /\ mark[m] = 1
    BY <1>0, <1>1, <1>5, <1>t DEF Typed
  <2>2. PICK i \in 1..k : path[i] = m
    BY <2>1 DEF PathLinked
  <2>3. i \in 1..(k - 1)
    BY <2>1, <2>2, <1>1
  <2> QED BY <2>2, <2>3, <1>2
<1> QED BY <1>3, <1>4, <1>5 DEF PathLinked

LEMMA PathLinkedPreserved ==
  ASSUME IInv, PathLinked, [Next]_vars
  PROVE  PathLinked'
<1>t. Typed
  BY PathTyped
<1>1. ASSUME NEW n \in Names, Descend(n) PROVE PathLinked'
  BY <1>1, DescendLinks
<1>2. CASE Place
  BY <1>2, PlaceLinks
<1>3. ASSUME NEW n \in Names, Again(n) PROVE PathLinked'
  <2>1. Pass(n) /\ UNCHANGED <<path, mark, deps>>
    BY <1>3 DEF Again, world
  <2>2. \A m \in Names : left'[m] \subseteq left[m]
    BY <2>1, <1>t DEF Pass, Typed
  <2> QED BY <2>1, <2>2 DEF PathLinked
<1>4. CASE UNCHANGED <<search, world>>
  BY <1>4 DEF PathLinked, search, world
<1> QED BY <1>1, <1>2, <1>3, <1>4, HandlersApart
     DEF Next, Go, Resolve, CriticalOff, Refuse, Resolved, Register, StartModule, Started,
         ListenFailed, Drained, StopModule, Stopped, Return, StartFails, Listen, Handling,
         Signal, Fail, Exit, vars

\* Resolve refuses exactly the configurations that are unusable, for every set of
\* modules and every graph of dependencies, and otherwise orders what is on
\* (modules.go:60-115).
THEOREM ResolveAgreesHolds == Spec => []ResolveAgrees
<1>1. Init => PathLinked /\ Verdict
  BY EmptySeq DEF Init, PathLinked, Verdict
<1>2. IInv /\ PathLinked /\ Verdict /\ [Next]_vars => (PathLinked /\ Verdict)'
  BY PathLinkedPreserved, VerdictPreserved
<1>3. Spec => [](IInv /\ PathLinked /\ Verdict)
  BY <1>1, <1>2, InvariantHolds, PTL DEF Spec
<1>4. IInv /\ PathLinked /\ Verdict => ResolveAgrees
  <2> SUFFICES ASSUME IInv, PathLinked, Verdict PROVE ResolveAgrees
    OBVIOUS
  <2>t. Typed
    BY PathTyped
  <2>1. failed => Unusable
    BY DEF Verdict
  <2>2. ASSUME phase = "register"
        PROVE  /\ ~ Unusable
               /\ {ordered[i] : i \in DOMAIN ordered} = added \ off
               /\ \A i, j \in DOMAIN ordered :
                    /\ ordered[i] = ordered[j] => i = j
                    /\ ordered[j] \in deps[ordered[i]] => j < i
    <3>1. ~ Unusable
      BY <2>2, AcceptedIsUsable
    <3>2. \A n \in On : n \in Names /\ mark[n] = 2
      BY <2>2 DEF IInv, TypeOK, Search, SearchOver, LoopsKeep, On
    <3>3. DOMAIN ordered = 1..Len(ordered)
      BY <2>t DEF Typed
    <3>4. {ordered[i] : i \in DOMAIN ordered} = added \ off
      <4>1. \A n \in On : \E i \in 1..Len(ordered) : ordered[i] = n
        BY <3>2 DEF IInv, Search, OrderFirst
      <4>2. \A i \in 1..Len(ordered) : ordered[i] \in On
        BY <2>t DEF Typed
      <4> QED BY <4>1, <4>2, <3>3 DEF On
    <3>5. \A i, j \in DOMAIN ordered : ordered[i] = ordered[j] => i = j
      BY <3>3 DEF IInv, Search, OrderFirst
    <3>6. ASSUME NEW i \in 1..Len(ordered), NEW j \in 1..Len(ordered),
                 ordered[j] \in deps[ordered[i]]
          PROVE  j < i
      <4>1. PICK h \in 1..(i - 1) : ordered[h] = ordered[j]
        BY <3>6 DEF IInv, Search, OrderFirst
      <4>2. h \in 1..Len(ordered)
        BY <2>t DEF Typed
      <4>3. h = j
        BY <4>1, <4>2 DEF IInv, Search, OrderFirst
      <4> QED BY <4>1, <4>3
    <3> QED BY <3>1, <3>3, <3>4, <3>5, <3>6
  <2> QED BY <2>1, <2>2 DEF ResolveAgrees
<1> QED BY <1>3, <1>4, PTL
=============================================================================
