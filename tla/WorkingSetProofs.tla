-------------------------- MODULE WorkingSetProofs --------------------------
(***************************************************************************)
(* For any clients, names, paths and bounds: every variable of WorkingSet  *)
(* keeps its type, a name keeps its graph, a snapshot keeps its content, a *)
(* restore saves or names what it writes over, the node that records it    *)
(* shows no difference from what was restored, and Diff of two snapshots   *)
(* tells how they differ.                                                  *)
(***************************************************************************)
EXTENDS WorkingSet, FiniteSetTheorems, TLAPS

Reading == {"lock", "safety", "begin", "take", "check", "swap"}

\* Where a request is determines what it is and what its locals hold.
Placed(c) ==
    LET r == req[c] IN
    /\ r.pc = "put" => r.kind = "declare" /\ r.name \in Names
    /\ r.pc \in Reading \union {"put"} => r.w.id # 0
    /\ r.pc \in Reading => r.kind \in {"create", "restore"}
    /\ r.pc \in {"safety", "check", "swap", "ok"} => r.kind = "restore"
    /\ r.kind = "restore" => r.t # 0
    /\ r.pc \in {"begin", "take"} =>
          IF r.kind = "create" THEN r.for = "create" ELSE r.for \in {"safety", "record"}
    /\ r.pc \notin {"begin", "take"} => r.for = "none"
    /\ r.left \subseteq r.cover /\ r.cover \subseteq DOMAIN r.w.paths
    /\ r.pc # "take" => r.src = <<>> /\ r.left = {}
    /\ r.pc = "swap" => r.k \in 1..(Len(Sources(c)) + 1)
    /\ r.for = "record" => r.k = Len(Sources(c)) + 1
    /\ r.for # "record" /\ r.pc # "swap" => r.k = 1
    /\ r.for # "record" /\ r.pc \notin {"swap", "ok"} => r.over = {}

\* No two paths have one file, and a file in use is in a snapshot, or in one
\* being taken, only as that path's: linked, and since the file is there.
Apart ==
    /\ \A p, q \in Path : live[p] > 0 /\ live[p] = live[q] => p = q
    /\ \A s \in DOMAIN snaps : \A k \in DOMAIN snaps[s].src : \A p \in Path :
          live[p] > 0 /\ snaps[s].src[k].file = live[p]
              => links /\ snaps[s].src[k].path = p /\ s > fresh[p]
    /\ \A c \in Clients : \A k \in DOMAIN req[c].src : \A p \in Path :
          live[p] > 0 /\ req[c].src[k].file = live[p] => links /\ req[c].src[k].path = p

Keeps ==
    /\ \A s \in DOMAIN snaps : DOMAIN snaps[s].taken = DOMAIN snaps[s].src
    /\ SnapshotsKeepTheirContent

\* What was taken of a path nobody else wrote is what is there.
Untouched(c, p) == p \notin req[c].touched
AsIs(file, p) == Stamp(file) = Stamp(live[p])
Took(c) ==
    At(c, "take") /\ req[c].kind = "restore" =>
        /\ \A i \in req[c].cover \ req[c].left : \E k \in DOMAIN req[c].src :
              req[c].src[k].path = req[c].w.paths[i]
        /\ \A k \in DOMAIN req[c].src :
              Untouched(c, req[c].src[k].path) => AsIs(req[c].src[k].file, req[c].src[k].path)

\* A declared path that a restore is yet to write over is saved or named, and
\* so is what it wrote over.
Swapped(c) == {j \in 1..(req[c].k - 1) : j \in DOMAIN Sources(c)}
Safe(c, p, stamp) == Holds(req[c].safe, p, stamp) \/ p \in req[c].said
Declared(c, p) == \E i \in DOMAIN req[c].w.paths : req[c].w.paths[i] = p
Ahead(c, p) == Untouched(c, p) /\ live[p] > 0 /\ \A j \in Swapped(c) : Sources(c)[j].path # p
Saves(c) ==
    /\ req[c].for = "safety" => \A i \in DOMAIN req[c].w.paths :
            i \in req[c].cover \/ req[c].w.paths[i] \in req[c].said
    /\ req[c].pc \in {"check", "swap"} => \A p \in Path :
            Declared(c, p) /\ Ahead(c, p) => Safe(c, p, data[live[p]])
    /\ \A lost \in req[c].over : Safe(c, lost[1], lost[2]) \/ ~Declared(c, lost[1])

\* What a restore brought back is there, where nobody else wrote.
Delivers(c) ==
    req[c].kind = "restore" /\ req[c].pc \notin {"lock", "ok"} /\ Distinct(req[c].t) =>
        \A j \in Swapped(c) :
            Untouched(c, Sources(c)[j].path) => AsIs(Sources(c)[j].file, Sources(c)[j].path)

Client(c) == Placed(c) /\ Took(c) /\ Saves(c) /\ Delivers(c)
IInv == TypeOK /\ Apart /\ Keeps /\ \A c \in Clients : Client(c)

-----------------------------------------------------------------------------
\* A file has a stamp, and what is not a file has none.
LEMMA Stamps ==
    ASSUME TypeOK
    PROVE  /\ \A f \in 1..Len(data) : Stamp(f) = data[f] /\ data[f] \in 1..clock
           /\ \A f \in {Missing, Link, Empty} : Stamp(f) = 0
<1> QED BY DEF TypeOK, Stamp, Missing, Link, Empty

\* The types only grow with what they are made of.
Grown == /\ ids' \in Nat /\ ids' >= ids /\ Len(snaps') >= Len(snaps)
         /\ Len(data') >= Len(data) /\ clock' \in Nat /\ clock' >= clock

LEMMA TypesGrow ==
    ASSUME TypeOK, Grown, Len(snaps') \in Nat, Len(data') \in Nat
    PROVE  Row \subseteq Row' /\ Source \subseteq Source' /\ Snapshot \subseteq Snapshot' /\ Request \subseteq Request'
<1>1. ids \in Nat /\ clock \in Nat /\ Len(snaps) \in Nat /\ Len(data) \in Nat
  BY DEF TypeOK
<1>2. Row \subseteq Row'
  BY <1>1 DEF Row, Grown
<1>3. Source \subseteq Source'
  BY <1>1 DEF Source, Grown
<1>4. Seq(Source) \subseteq Seq(Source')
  BY <1>3
<1>5. Seq(0..clock) \subseteq Seq(0..clock')
  <2> DEFINE S == 0..clock
             T == 0..clock'
  <2>1. S \subseteq T
    BY <1>1 DEF Grown
  <2>2. Seq(S) \subseteq Seq(T)
    <3> HIDE DEF S, T
    <3> QED BY <2>1
  <2> QED BY <2>2
<1>6. Snapshot \subseteq Snapshot'
  BY <1>1, <1>4, <1>5 DEF Snapshot, Grown
<1>7. Request \subseteq Request'
  <2> DEFINE W == Row
             Q == Seq(Source)
             V == 0..Len(snaps)
             V2 == 0..Len(snaps')
  <2>1. V \subseteq V2
    BY <1>1 DEF Grown
  <2>2. W \subseteq Row' /\ Q \subseteq Seq(Source')
    BY <1>2, <1>4
  <2> SUFFICES ASSUME NEW r \in Request PROVE r \in Request'
    OBVIOUS
  <2>3. /\ r.w \in Row' /\ r.src \in Seq(Source') /\ r.t \in V2 /\ r.safe \in V2
    <3>1. r.w \in W /\ r.src \in Q /\ r.t \in V /\ r.safe \in V
      BY DEF Request
    <3> HIDE DEF W, Q, V, V2
    <3> QED BY <2>1, <2>2, <3>1
  <2> QED BY <2>3 DEF Request
<1> QED BY <1>2, <1>3, <1>6, <1>7

-----------------------------------------------------------------------------
(***************************************************************************)
(* What a write to some paths means to a request that did not make it.     *)
(***************************************************************************)
\* The files at W are written; snapshots are added, files are added.
World(W) ==
    /\ Len(snaps') >= Len(snaps) /\ \A s \in DOMAIN snaps : snaps'[s] = snaps[s]
    /\ Len(data') >= Len(data) /\ Len(data') \in Nat /\ Len(snaps') \in Nat
    /\ \A f \in 1..Len(data) : data'[f] = data[f] \/ \E p \in W : live[p] = f
    /\ \A p \in Path \ W : live'[p] = live[p]

\* A request goes on as it was, a restore with W noted as written by others.
Like(c, W) ==
    /\ req'[c].pc = req[c].pc /\ req'[c].kind = req[c].kind /\ req'[c].name = req[c].name
    /\ req'[c].w = req[c].w /\ req'[c].t = req[c].t /\ req'[c].cover = req[c].cover
    /\ req'[c].left = req[c].left /\ req'[c].src = req[c].src /\ req'[c].for = req[c].for
    /\ req'[c].k = req[c].k /\ req'[c].safe = req[c].safe /\ req'[c].said = req[c].said
    /\ req'[c].over = req[c].over
    /\ req'[c].touched = IF req[c].kind = "restore" /\ req[c].pc \notin {"lock", "ok"}
                         THEN req[c].touched \union W ELSE req[c].touched

\* The parts of the types the rest needs.
LEMMA Parts ==
    ASSUME TypeOK
    PROVE  /\ Len(snaps) \in Nat /\ DOMAIN snaps = 1..Len(snaps)
           /\ Len(data) \in Nat /\ DOMAIN data = 1..Len(data)
           /\ \A s \in DOMAIN snaps : snaps[s] \in Snapshot /\ DOMAIN snaps[s].src \subseteq Nat
           /\ \A s \in DOMAIN snaps : \A k \in DOMAIN snaps[s].src : snaps[s].src[k] \in Source
           /\ \A c \in Clients : req[c] \in Request
           /\ \A c \in Clients : \A k \in DOMAIN req[c].src : req[c].src[k] \in Source
           /\ \A p \in Path : live[p] \in {Missing, Link, Empty} \union 1..Len(data)
<1>1. snaps \in Seq(Snapshot) /\ data \in Seq(1..clock)
  BY DEF TypeOK
<1>2. \A s \in DOMAIN snaps : snaps[s] \in Snapshot
  BY <1>1
<1>3. \A s \in DOMAIN snaps : snaps[s].src \in Seq(Source)
  BY <1>2 DEF Snapshot
<1>4. \A c \in Clients : req[c] \in Request
  BY DEF TypeOK
<1>5. \A c \in Clients : req[c].src \in Seq(Source)
  BY <1>4 DEF Request
<1>6. \A q \in Seq(Source) : DOMAIN q \subseteq Nat /\ \A k \in DOMAIN q : q[k] \in Source
  OBVIOUS
<1>7. \A p \in Path : live[p] \in {Missing, Link, Empty} \union 1..Len(data)
  BY DEF TypeOK
<1> QED BY <1>1, <1>2, <1>3, <1>4, <1>5, <1>6, <1>7

\* A path nobody wrote keeps its file and that file its stamp; so does a file
\* that is of no path but that one.
LEMMA StampsStay ==
    ASSUME TypeOK, Apart, NEW W \in SUBSET Path, World(W)
    PROVE  /\ \A p \in Path \ W : /\ live'[p] = live[p]
                                  /\ (IF live[p] > 0 THEN data'[live[p]] ELSE 0) = Stamp(live[p])
           /\ \A p \in Path \ W : live[p] > 0 => data'[live'[p]] = data[live[p]]
           /\ \A f \in {Empty} \union 1..Len(data) :
                 (\A p \in W : live[p] > 0 => f # live[p])
                     => (IF f > 0 THEN data'[f] ELSE 0) = Stamp(f)
<1>1. \A p \in Path : live[p] \in {Missing, Link, Empty} \union 1..Len(data)
  BY Parts
<1>2. \A f \in {Empty} \union 1..Len(data) :
         (\A p \in W : live[p] > 0 => f # live[p]) => (f > 0 => data'[f] = data[f])
  BY Parts DEF World, Empty
<1>3. \A p \in Path \ W : live[p] > 0 => data'[live[p]] = data[live[p]]
  <2> SUFFICES ASSUME NEW p \in Path \ W, live[p] > 0 PROVE data'[live[p]] = data[live[p]]
    OBVIOUS
  <2>1. live[p] \in 1..Len(data)
    BY <1>1 DEF Missing, Link, Empty
  <2>2. \A q \in W : live[q] # live[p]
    BY DEF Apart
  <2> QED BY <2>1, <2>2 DEF World
<1>4. \A p \in Path \ W : live'[p] = live[p]
  BY DEF World
<1> QED BY <1>2, <1>3, <1>4 DEF Stamp

\* A restore has a snapshot to restore.
LEMMA Target ==
    ASSUME IInv, NEW c \in Clients, req[c].kind = "restore"
    PROVE  /\ req[c].t \in DOMAIN snaps /\ Sources(c) \in Seq(Source)
           /\ Len(Sources(c)) \in Nat /\ DOMAIN Sources(c) = 1..Len(Sources(c))
<1>1. TypeOK /\ req[c].t # 0
  BY DEF IInv, Client, Placed
<1>2. req[c] \in Request
  BY <1>1, Parts
<1>3. req[c].t \in 0..Len(snaps)
  BY <1>2 DEF Request
<1>4. req[c].t \in DOMAIN snaps
  BY <1>1, <1>3, Parts
<1>5. Sources(c) \in Seq(Source)
  BY <1>1, <1>4, Parts DEF Snapshot, Sources
<1> QED BY <1>4, <1>5

\* A restore keeps its snapshot, what the snapshot holds, and what it swapped.
LEMMA Same ==
    ASSUME IInv, NEW c \in Clients, NEW W \in SUBSET Path, World(W), req[c].kind = "restore",
           req'[c].t = req[c].t, req'[c].k = req[c].k
    PROVE  /\ req[c].t \in DOMAIN snaps /\ Sources(c)' = Sources(c)
           /\ Distinct(req[c].t)' = Distinct(req[c].t) /\ Swapped(c)' = Swapped(c)
<1>1. req[c].t \in DOMAIN snaps
  BY Target
<1>2. snaps'[req[c].t] = snaps[req[c].t]
  BY <1>1 DEF World
<1> QED BY <1>1, <1>2 DEF Sources, Distinct, Swapped

\* What is saved or said stays so, as the warning grows.
LEMMA SafeOn ==
    ASSUME IInv, NEW c \in Clients, NEW W \in SUBSET Path, World(W),
           req'[c].safe = req[c].safe, req[c].said \subseteq req'[c].said
    PROVE  \A p, v : Safe(c, p, v) => Safe(c, p, v)'
<1>1. TypeOK /\ req[c].safe \in 0..Len(snaps)
  BY Parts DEF IInv, Request
<1> SUFFICES ASSUME NEW p, NEW v, Safe(c, p, v) PROVE Safe(c, p, v)'
  OBVIOUS
<1>2. CASE p \in req[c].said
  BY <1>1, <1>2 DEF Safe
<1>3. CASE Holds(req[c].safe, p, v)
  <2>1. req[c].safe \in DOMAIN snaps /\ req[c].safe # 0
    <3>1. req[c].safe # 0
      BY <1>3 DEF Holds
    <3> QED BY <1>1, <3>1, Parts
  <2>2. snaps'[req[c].safe] = snaps[req[c].safe]
    BY <2>1 DEF World
  <2> QED BY <1>1, <1>3, <2>1, <2>2 DEF Safe, Holds
<1> QED BY <1>2, <1>3 DEF Safe

\* What a restore brought back stays, where nobody else writes.
LEMMA DeliversOn ==
    ASSUME IInv, NEW c \in Clients, NEW W \in SUBSET Path, World(W),
           req[c].kind = "restore", req[c].pc \notin {"lock", "ok"},
           req'[c].t = req[c].t, req'[c].k = req[c].k, req'[c].touched = req[c].touched \union W
    PROVE  Delivers(c)'
<1>1. TypeOK /\ Apart /\ Client(c) /\ req[c] \in Request
  BY Parts DEF IInv
<1>2. /\ req[c].t \in DOMAIN snaps /\ Sources(c)' = Sources(c)
      /\ Distinct(req[c].t)' = Distinct(req[c].t) /\ Swapped(c)' = Swapped(c)
  BY Same
<1>3. Delivers(c)'
  <2> SUFFICES ASSUME Distinct(req[c].t), NEW j \in Swapped(c), Untouched(c, Sources(c)[j].path)'
               PROVE  AsIs(Sources(c)[j].file, Sources(c)[j].path)'
    BY <1>2 DEF Delivers
  <2> DEFINE f == Sources(c)[j].file
             p == Sources(c)[j].path
  <2>1. f \in {Empty} \union 1..Len(data) /\ p \in Path
    BY <1>1, <1>2, Parts DEF Source, Sources, Swapped
  <2>2. p \in Path \ W /\ Untouched(c, p)
    BY <1>2, <2>1 DEF Untouched
  <2>3. AsIs(f, p)
    BY <1>1, <2>2 DEF Client, Delivers
  <2>4. \A q \in W : live[q] > 0 => f # live[q]
    BY <1>1, <1>2, <2>2 DEF Apart, Sources, Swapped
  <2>5. (IF f > 0 THEN data'[f] ELSE 0) = Stamp(f)
    BY <1>1, <2>1, <2>4, StampsStay
  <2>6. live'[p] = live[p] /\ (IF live[p] > 0 THEN data'[live[p]] ELSE 0) = Stamp(live[p])
    BY <1>1, <2>2, StampsStay
  <2> QED BY <1>2, <2>3, <2>5, <2>6 DEF AsIs, Stamp
<1> QED BY <1>3

\* A request that did not make the step goes on.
LEMMA ClientKept ==
    ASSUME IInv, NEW c \in Clients, NEW W \in SUBSET Path, World(W), Like(c, W)
    PROVE  Client(c)'
<1>1. TypeOK /\ Apart /\ Client(c) /\ req[c] \in Request
  BY Parts DEF IInv
<1>2. req[c].kind = "restore" => /\ req[c].t \in DOMAIN snaps /\ Sources(c)' = Sources(c)
                                 /\ Distinct(req[c].t)' = Distinct(req[c].t)
                                 /\ Swapped(c)' = Swapped(c)
  BY Same DEF Like
<1>3. Placed(c)'
  BY <1>1, <1>2 DEF Client, Placed, Like, Reading
<1>4. \A p \in Path : /\ req[c].kind = "restore" /\ req[c].pc \notin {"lock", "ok"} /\ Untouched(c, p)'
                          => p \in Path \ W /\ Untouched(c, p)
  BY DEF Untouched, Like
<1>5. Took(c)'
  <2>1. \A k \in DOMAIN req[c].src :
           /\ req[c].kind = "restore" /\ At(c, "take") /\ Took(c) /\ Untouched(c, req[c].src[k].path)'
           => AsIs(req[c].src[k].file, req[c].src[k].path)'
    <3> SUFFICES ASSUME NEW k \in DOMAIN req[c].src, req[c].kind = "restore", At(c, "take"), Took(c),
                        Untouched(c, req[c].src[k].path)'
                 PROVE  AsIs(req[c].src[k].file, req[c].src[k].path)'
      OBVIOUS
    <3> DEFINE f == req[c].src[k].file
               p == req[c].src[k].path
    <3>1. f \in {Empty} \union 1..Len(data) /\ p \in Path
      BY <1>1, Parts DEF Source
    <3>2. p \in Path \ W /\ Untouched(c, p) /\ req'[c].src = req[c].src
      BY <1>4, <3>1 DEF At, Like, Untouched
    <3>3. AsIs(f, p)
      BY <3>2 DEF Took
    <3>4. \A q \in W : live[q] > 0 => f # live[q]
      BY <1>1, <3>2 DEF Apart
    <3>5. (IF f > 0 THEN data'[f] ELSE 0) = Stamp(f)
      BY <1>1, <3>1, <3>4, StampsStay
    <3>6. live'[p] = live[p] /\ (IF live[p] > 0 THEN data'[live[p]] ELSE 0) = Stamp(live[p])
      BY <1>1, <3>2, StampsStay
    <3> QED BY <3>2, <3>3, <3>5, <3>6 DEF AsIs, Stamp
  <2> QED BY <1>1, <2>1 DEF Client, Took, Like, At, Untouched
<1>6. \A p, v : Safe(c, p, v) => Safe(c, p, v)'
  BY SafeOn DEF Like
<1>7. \A p : Declared(c, p)' = Declared(c, p)
  BY DEF Declared, Like
<1>8. Saves(c)'
  <2>1. req[c].for = "safety" => \A i \in DOMAIN req[c].w.paths :
            i \in req[c].cover \/ req[c].w.paths[i] \in req[c].said
    BY <1>1 DEF Client, Saves
  <2>2. ASSUME req[c].pc \in {"check", "swap"}, NEW p \in Path, Declared(c, p), Ahead(c, p)'
        PROVE  Safe(c, p, data[live[p]])'
    <3>1. req[c].kind = "restore"
      BY <1>1, <2>2 DEF Client, Placed
    <3>2. p \in Path \ W /\ Untouched(c, p)
      BY <1>4, <2>2, <3>1 DEF Ahead
    <3>3. live'[p] = live[p] /\ (live[p] > 0 => data'[live'[p]] = data[live[p]])
      BY <1>1, <3>2, StampsStay
    <3>4. Ahead(c, p)
      BY <1>2, <2>2, <3>1, <3>2, <3>3 DEF Ahead
    <3>5. Safe(c, p, data[live[p]])
      BY <1>1, <2>2, <3>4 DEF Client, Saves
    <3> QED BY <1>6, <3>3, <3>4, <3>5 DEF Ahead
  <2>3. \A lost \in req[c].over : Safe(c, lost[1], lost[2])' \/ ~Declared(c, lost[1])'
    BY <1>1, <1>6, <1>7 DEF Client, Saves
  <2> QED BY <1>7, <2>1, <2>2, <2>3 DEF Saves, Like
<1>9. Delivers(c)'
  <2>1. CASE req[c].kind = "restore" /\ req[c].pc \notin {"lock", "ok"}
    BY <2>1, DeliversOn DEF Like
  <2>2. CASE req[c].kind # "restore" \/ req[c].pc \in {"lock", "ok"}
    BY <2>2 DEF Delivers, Like
  <2> QED BY <2>1, <2>2
<1> QED BY <1>3, <1>5, <1>8, <1>9 DEF Client

-----------------------------------------------------------------------------
(***************************************************************************)
(* Steps of one request that leave the files and the snapshots alone.      *)
(***************************************************************************)
Tables ==
    /\ worksets \in [Names -> Row] /\ ids \in Nat
    /\ \A i \in DOMAIN lock : i \in 1..ids /\ lock[i] \in Clients
    /\ requests \in 0..MaxRequests /\ edits \in 0..MaxEdits /\ faults \in 0..MaxFaults

Local == UNCHANGED <<snaps, links, fileVars>> /\ Tables' /\ ids' >= ids

\* With the files as they were, only the request that steps is in question.
LEMMA LocalStep ==
    ASSUME IInv, Local, NEW c \in Clients, NEW r \in Request', req' = [req EXCEPT ![c] = r],
           r.src \in {<<>>, req[c].src}, Client(c)'
    PROVE  IInv'
<1>1. TypeOK /\ Apart /\ Keeps /\ snaps' = snaps /\ links' = links /\ live' = live
      /\ data' = data /\ clock' = clock /\ fresh' = fresh /\ spoilt' = spoilt
  BY DEF IInv, Local, fileVars
<1>2. Grown /\ World({})
  BY <1>1, Parts DEF Grown, World, Local, TypeOK, Tables
<1>3. Request \subseteq Request' /\ Snapshot \subseteq Snapshot'
  BY <1>1, <1>2, Parts, TypesGrow
<1>4. req \in [Clients -> Request] /\ req'[c] = r /\ \A d \in Clients \ {c} : req'[d] = req[d]
  BY <1>1 DEF TypeOK
<1>5. \A d \in Clients : Client(d)'
  <2> SUFFICES ASSUME NEW d \in Clients \ {c} PROVE Client(d)'
    OBVIOUS
  <2>1. Like(d, {})
    BY <1>4 DEF Like
  <2> QED BY <1>2, <2>1, ClientKept
<1>6. req' \in [Clients -> Request']
  BY <1>3, <1>4
<1>7. TypeOK'
  <2>1. snaps' \in Seq(Snapshot')
    BY <1>1, <1>3, Parts DEF TypeOK
  <2>2. \A d \in Clients : At(d, "swap")' => req'[d].k \in 1..(Len(Sources(d)') + 1)
    BY <1>5 DEF Client, Placed, At
  <2>3. data' \in Seq(1..clock') /\ clock' \in Nat /\ links' \in BOOLEAN
    BY <1>1 DEF TypeOK
  <2>4. /\ live' \in [Path -> {Missing, Link, Empty} \union 1..Len(data')]
        /\ fresh' \in [Path -> 0..Len(snaps')] /\ spoilt' \subseteq Nat \X Path
    BY <1>1 DEF TypeOK
  <2> QED BY <1>6, <2>1, <2>2, <2>3, <2>4 DEF TypeOK, Tables, Local
<1>8. Apart' /\ Keeps'
  <2>1. \A d \in Clients : \A k \in DOMAIN req'[d].src : \A p \in Path :
           live[p] > 0 /\ req'[d].src[k].file = live[p] => links /\ req'[d].src[k].path = p
    <3>1. \A d \in Clients : req'[d].src = <<>> \/ req'[d].src = req[d].src
      BY <1>4
    <3> QED BY <1>1, <3>1 DEF Apart
  <2>2. Apart'
    BY <1>1, <2>1 DEF Apart
  <2>3. Keeps'
    BY <1>1 DEF Keeps, SnapshotsKeepTheirContent, Stamp
  <2> QED BY <2>2, <2>3
<1> QED BY <1>5, <1>7, <1>8 DEF IInv

\* A request that is over asks nothing.
LEMMA NoneAsked ==
    ASSUME TypeOK
    PROVE  /\ NoRequest \in Request
           /\ \A c \in Clients : req'[c] = NoRequest => Client(c)'
<1>1. NoRequest \in Request
  <2>1. ids \in Nat /\ Len(snaps) \in Nat /\ Undeclared \in Row
    BY Parts DEF TypeOK, Undeclared, Row
  <2> QED BY <2>1 DEF NoRequest, Request
<1>2. ASSUME NEW c \in Clients, req'[c] = NoRequest PROVE Client(c)'
  <2>1. /\ req'[c].pc = "idle" /\ req'[c].kind = "none" /\ req'[c].for = "none" /\ req'[c].k = 1
        /\ req'[c].left = {} /\ req'[c].cover = {} /\ req'[c].src = <<>> /\ req'[c].over = {}
    <3>1. /\ NoRequest.pc = "idle" /\ NoRequest.kind = "none" /\ NoRequest.for = "none"
          /\ NoRequest.k = 1 /\ NoRequest.left = {} /\ NoRequest.cover = {}
          /\ NoRequest.src = <<>> /\ NoRequest.over = {}
      BY DEF NoRequest
    <3> QED BY <1>2, <3>1
  <2> QED BY <2>1 DEF Client, Placed, Took, Saves, Delivers, Reading, At
<1> QED BY <1>1, <1>2

\* So an error answer is safe anywhere.
LEMMA Ends ==
    ASSUME IInv, UNCHANGED <<snaps, links, fileVars>>, NEW c \in Clients,
           req' = [req EXCEPT ![c] = NoRequest],
           lock' = lock \/ lock' = [i \in DOMAIN lock \ Held(c) |-> lock[i]],
           worksets' \in [Names -> Row], ids' = ids,
           requests' \in 0..MaxRequests, edits' \in 0..MaxEdits, faults' \in 0..MaxFaults
    PROVE  IInv'
<1>1. TypeOK /\ Tables /\ req \in [Clients -> Request]
  BY DEF IInv, TypeOK, Tables
<1>2. Row' = Row
  BY DEF Row
<1>3. Local
  BY <1>1, <1>2 DEF Local, Tables
<1>4. Request' = Request
  BY <1>2 DEF Request, Source, fileVars
<1>5. NoRequest \in Request' /\ NoRequest.src = <<>> /\ req'[c] = NoRequest
  BY <1>1, <1>4, NoneAsked DEF NoRequest
<1>6. Client(c)'
  BY <1>1, <1>5, NoneAsked
<1> QED BY <1>3, <1>5, <1>6, LocalStep

\* A request that is no restore owes nothing but its place.
LEMMA Plain ==
    ASSUME NEW c \in Clients, req'[c].kind # "restore", Placed(c)'
    PROVE  Client(c)'
<1>1. req'[c].pc \notin {"safety", "check", "swap", "ok"} /\ req'[c].for \in {"none", "create"}
  BY DEF Placed, Reading
<1>2. req'[c].over = {}
  BY <1>1 DEF Placed
<1> QED BY <1>1, <1>2 DEF Client, Took, Saves, Delivers

\* What a step without a file leaves of the types.
LEMMA Sets ==
    ASSUME UNCHANGED <<snaps, links, fileVars>>
    PROVE  Source' = Source /\ Path \in SUBSET Nat
<1> QED BY WorkingSetAssumption DEF Source, fileVars, Path

LEMMA CreateWorksetKeeps ==
    ASSUME IInv, NEW c \in Clients, CreateWorkset(c)
    PROVE  IInv'
<1>1. TypeOK /\ UNCHANGED <<worksets, lock, snaps, links, fileVars, edits, faults>>
  BY DEF IInv, CreateWorkset
<1>2. PICK n \in Names, ps \in {<<1>>, [k \in Path |-> k]}, b \in BOOLEAN :
         /\ b => ps = <<1>>
         /\ LET fresh_id == worksets[n].id = 0 IN
            /\ ids' = IF fresh_id THEN ids + 1 ELSE ids
            /\ Set(c, [NoRequest EXCEPT
                          !.pc = "put", !.kind = "declare", !.name = n,
                          !.w = [id |-> IF fresh_id THEN ids + 1 ELSE worksets[n].id,
                                 paths |-> [k \in DOMAIN ps |-> Resolve(ps[k])],
                                 container |-> b]])
  BY DEF CreateWorkset
<1> DEFINE i == IF worksets[n].id = 0 THEN ids + 1 ELSE worksets[n].id
           w == [id |-> i, paths |-> [k \in DOMAIN ps |-> Resolve(ps[k])], container |-> b]
           r == [NoRequest EXCEPT !.pc = "put", !.kind = "declare", !.name = n, !.w = w]
<1>3. ids \in Nat /\ worksets[n] \in Row /\ worksets \in [Names -> Row]
  BY <1>1 DEF TypeOK
<1>4. ids' \in Nat /\ ids' >= ids /\ i \in 1..ids' /\ worksets[n].id \in 0..ids
  BY <1>2, <1>3 DEF Row
<1>5. w.paths \in Seq(Path)
  <2>1. ps \in Seq(Path) /\ N \in Path
    <3>1. N \in Nat \ {0} /\ 1 \in Path /\ N \in Path
      BY WorkingSetAssumption DEF Path
    <3>2. [k \in 1..N |-> k] \in Seq(1..N)
      BY <3>1
    <3>3. <<1>> \in Seq(Path) /\ [k \in Path |-> k] \in Seq(Path)
      BY <3>1, <3>2 DEF Path
    <3>4. ps = <<1>> \/ ps = [k \in Path |-> k]
      OBVIOUS
    <3> HIDE DEF Path
    <3> QED BY <3>1, <3>3, <3>4
  <2>2. \A k \in DOMAIN ps : Resolve(ps[k]) \in Path
    BY <2>1 DEF Resolve
  <2>3. DOMAIN ps = 1..Len(ps) /\ Len(ps) \in Nat
    BY <2>1
  <2> QED BY <2>2, <2>3
<1>6. w \in Row'
  BY <1>4, <1>5 DEF Row
<1>7. Local
  <2>1. Row \subseteq Row'
    BY <1>3, <1>4 DEF Row
  <2>2. requests' \in 0..MaxRequests
    BY <1>1, WorkingSetAssumption DEF TypeOK, CreateWorkset, Arrives
  <2> QED BY <1>1, <1>3, <1>4, <2>1, <2>2 DEF Local, Tables, TypeOK
<1>8. r \in Request' /\ r.src = <<>>
  <2>1. NoRequest \in Request
    BY <1>1, NoneAsked
  <2>2. \A v \in Row' : [NoRequest EXCEPT !.pc = "put", !.kind = "declare", !.name = n, !.w = v] \in Request'
    BY <2>1, <1>1, <1>3, <1>4, Sets DEF Request
  <2>3. \A v : [NoRequest EXCEPT !.pc = "put", !.kind = "declare", !.name = n, !.w = v].src = <<>>
    BY DEF NoRequest
  <2> QED BY <1>6, <2>2, <2>3
<1>9. Placed(c)' /\ req'[c].kind # "restore"
  <2>1. req' = [req EXCEPT ![c] = r] /\ req'[c] = r
    BY <1>1, <1>2 DEF Set, TypeOK
  <2>2. \A v : LET q == [NoRequest EXCEPT !.pc = "put", !.kind = "declare", !.name = n, !.w = v] IN
           /\ q.pc = "put" /\ q.kind = "declare" /\ q.name = n /\ q.w = v /\ q.cover = {}
           /\ q.left = {} /\ q.src = <<>> /\ q.for = "none" /\ q.k = 1 /\ q.over = {}
    BY DEF NoRequest
  <2>3. /\ r.pc = "put" /\ r.kind = "declare" /\ r.name = n /\ r.w = w /\ r.cover = {}
        /\ r.left = {} /\ r.src = <<>> /\ r.for = "none" /\ r.k = 1 /\ r.over = {}
    BY <2>2
  <2>4. w.id # 0
    BY <1>4
  <2>5. /\ req'[c].pc = "put" /\ req'[c].kind = "declare" /\ req'[c].name = n /\ req'[c].w.id # 0
        /\ req'[c].cover = {} /\ req'[c].left = {} /\ req'[c].src = <<>> /\ req'[c].for = "none"
        /\ req'[c].k = 1 /\ req'[c].over = {}
    <3> HIDE DEF r, w
    <3> QED BY <2>1, <2>3, <2>4
  <2> QED BY <2>5 DEF Placed, Reading
<1>10. req' = [req EXCEPT ![c] = r]
  BY <1>2 DEF Set
<1> QED BY <1>10, <1>7, <1>8, <1>9, Plain, LocalStep

LEMMA PutWorksetKeeps ==
    ASSUME IInv, NEW c \in Clients, PutWorkset(c) \/ RefuseWorkset(c)
    PROVE  IInv'
<1>1. TypeOK /\ Placed(c) /\ req[c] \in Request
  BY Parts DEF IInv, Client
<1>2. req[c].pc = "put" /\ UNCHANGED <<ids, snaps, links, fileVars, requests, edits>>
  BY DEF PutWorkset, RefuseWorkset, At, tableVars
<1>3. req[c].kind = "declare" /\ req[c].name \in Names /\ req[c].w \in Row
  BY <1>1, <1>2 DEF Placed, Request
<1>4. worksets' \in [Names -> Row]
  BY <1>1, <1>3 DEF PutWorkset, RefuseWorkset, tableVars, TypeOK
<1>5. /\ req' = [req EXCEPT ![c] = NoRequest]
      /\ lock' = [i \in DOMAIN lock \ Held(c) |-> lock[i]]
  BY <1>3 DEF PutWorkset, RefuseWorkset, Answers, Set
<1>6. faults' \in 0..MaxFaults
  BY <1>1, WorkingSetAssumption DEF PutWorkset, RefuseWorkset, Trips, TypeOK
<1>7. requests' \in 0..MaxRequests /\ edits' \in 0..MaxEdits
  BY <1>1, <1>2 DEF TypeOK
<1> QED BY <1>2, <1>4, <1>5, <1>6, <1>7, Ends

\* A request that begins without the tables.
LEMMA Begins ==
    ASSUME IInv, NEW c \in Clients, UNCHANGED <<tableVars, snaps, links, fileVars, edits, faults>>,
           UNCHANGED requests \/ Arrives(c),
           lock' = lock \/ \E i \in 1..ids : lock' = [j \in DOMAIN lock \union {i} |-> IF j = i THEN c ELSE lock[j]]
    PROVE  Local /\ Request' = Request /\ TypeOK /\ req \in [Clients -> Request]
<1>1. TypeOK /\ Row' = Row
  BY DEF IInv, Row, tableVars
<1>2. Request' = Request
  BY <1>1, Sets DEF Request
<1>3. requests' \in 0..MaxRequests
  BY <1>1, WorkingSetAssumption DEF Arrives, TypeOK
<1>4. \A i \in DOMAIN lock' : i \in 1..ids' /\ lock'[i] \in Clients
  BY <1>1 DEF TypeOK, tableVars
<1> QED BY <1>1, <1>2, <1>3, <1>4 DEF Local, Tables, TypeOK, tableVars

LEMMA CreateSnapshotKeeps ==
    ASSUME IInv, NEW c \in Clients, CreateSnapshot(c)
    PROVE  IInv'
<1>1. /\ UNCHANGED <<tableVars, snaps, links, fileVars, edits, faults>> /\ Arrives(c)
      /\ TypeOK /\ req \in [Clients -> Request]
  BY DEF CreateSnapshot, IInv, TypeOK
<1>2. PICK n \in Names :
         /\ worksets[n].id # 0
         /\ LET r == [NoRequest EXCEPT !.kind = "create", !.w = worksets[n]] IN
            IF worksets[n].container THEN Answers(c, "error", r)
            ELSE Set(c, [r EXCEPT !.pc = "lock"]) /\ UNCHANGED lock
  BY DEF CreateSnapshot
<1>3. CASE req' = [req EXCEPT ![c] = NoRequest] /\ lock' = [i \in DOMAIN lock \ Held(c) |-> lock[i]]
  <2>1. requests' \in 0..MaxRequests /\ edits' \in 0..MaxEdits /\ faults' \in 0..MaxFaults
    BY <1>1, WorkingSetAssumption DEF TypeOK, Arrives
  <2>2. worksets' \in [Names -> Row] /\ ids' = ids /\ UNCHANGED <<snaps, links, fileVars>>
    BY <1>1 DEF TypeOK, tableVars
  <2> QED BY <1>3, <2>1, <2>2, Ends
<1>4. CASE Set(c, [[NoRequest EXCEPT !.kind = "create", !.w = worksets[n]] EXCEPT !.pc = "lock"]) /\ UNCHANGED lock
  <2> DEFINE R(w) == [[NoRequest EXCEPT !.kind = "create", !.w = w] EXCEPT !.pc = "lock"]
             r == R(worksets[n])
  <2>1. Local /\ Request' = Request
    BY <1>1, <1>4, Begins
  <2>2. NoRequest \in Request /\ worksets[n] \in Row
    BY <1>1, NoneAsked DEF TypeOK
  <2>3. \A w \in Row : R(w) \in Request
    BY <2>2 DEF Request
  <2>4. \A w \in Row : /\ R(w).pc = "lock" /\ R(w).kind = "create" /\ R(w).w = w /\ R(w).cover = {}
                       /\ R(w).left = {} /\ R(w).src = <<>> /\ R(w).for = "none" /\ R(w).k = 1
                       /\ R(w).over = {}
    BY DEF NoRequest
  <2> HIDE DEF R
  <2>5. r \in Request /\ req' = [req EXCEPT ![c] = r] /\ req'[c] = r /\ r.src = <<>>
    BY <1>1, <1>4, <2>2, <2>3, <2>4 DEF Set, R
  <2>6. Placed(c)' /\ req'[c].kind # "restore"
    BY <1>2, <2>2, <2>4, <2>5 DEF Placed, Reading
  <2> QED BY <2>1, <2>5, <2>6, Plain, LocalStep
<1> QED BY <1>2, <1>3, <1>4 DEF Answers, Set

\* A restore that has written nothing yet, nor said.
LEMMA Unstarted ==
    ASSUME NEW c \in Clients, Placed(c)', req'[c].pc \in {"lock", "safety"}
    PROVE  Client(c)'
<1>1. req'[c].for = "none" /\ req'[c].k = 1 /\ req'[c].over = {}
  BY DEF Placed
<1>2. Swapped(c)' = {}
  BY <1>1 DEF Swapped
<1> QED BY <1>1, <1>2 DEF Client, Took, Saves, Delivers, At

LEMMA RestoreKeeps ==
    ASSUME IInv, NEW c \in Clients, Restore(c)
    PROVE  IInv'
<1>1. /\ UNCHANGED <<tableVars, lock, snaps, links, fileVars, edits, faults>> /\ Arrives(c)
      /\ TypeOK /\ req \in [Clients -> Request]
  BY DEF Restore, IInv, TypeOK
<1>2. PICK t \in DOMAIN snaps, n \in Names :
         /\ worksets[n].id = snaps[t].ws
         /\ Set(c, [NoRequest EXCEPT !.pc = "lock", !.kind = "restore", !.w = worksets[n], !.t = t])
  BY DEF Restore
<1> DEFINE R(w, s) == [NoRequest EXCEPT !.pc = "lock", !.kind = "restore", !.w = w, !.t = s]
           r == R(worksets[n], t)
<1>3. Local /\ Request' = Request
  BY <1>1, Begins
<1>4. NoRequest \in Request /\ worksets[n] \in Row /\ t \in 1..Len(snaps) /\ worksets[n].id # 0
  <2>1. snaps[t] \in Snapshot /\ t \in 1..Len(snaps)
    BY <1>1, Parts
  <2>2. snaps[t].ws \in 1..ids /\ ids \in Nat
    BY <1>1, <2>1 DEF Snapshot, TypeOK
  <2> QED BY <1>1, <1>2, <2>1, <2>2, NoneAsked DEF TypeOK
<1>5. \A w \in Row, s \in 0..Len(snaps) : R(w, s) \in Request
  BY <1>4 DEF Request
<1>6. \A w, s : /\ R(w, s).pc = "lock" /\ R(w, s).kind = "restore" /\ R(w, s).w = w /\ R(w, s).cover = {}
                /\ R(w, s).left = {} /\ R(w, s).src = <<>> /\ R(w, s).for = "none" /\ R(w, s).k = 1
                /\ R(w, s).over = {} /\ R(w, s).t = s
  BY DEF NoRequest
<1>7. Set(c, r)
  BY <1>2
<1> HIDE DEF R
<1>8. r \in Request /\ req' = [req EXCEPT ![c] = r] /\ req'[c] = r /\ r.src = <<>>
  BY <1>1, <1>4, <1>5, <1>6, <1>7 DEF Set
<1>9. /\ req'[c].pc = "lock" /\ req'[c].kind = "restore" /\ req'[c].w.id # 0 /\ req'[c].cover = {}
      /\ req'[c].left = {} /\ req'[c].src = <<>> /\ req'[c].for = "none" /\ req'[c].k = 1
      /\ req'[c].over = {} /\ req'[c].t # 0
  BY <1>4, <1>6, <1>8
<1>10. Placed(c)'
  BY <1>9 DEF Placed, Reading
<1> QED BY <1>3, <1>8, <1>9, <1>10, Unstarted, LocalStep

LEMMA LockKeeps ==
    ASSUME IInv, NEW c \in Clients, Lock(c)
    PROVE  IInv'
<1>1. /\ UNCHANGED <<tableVars, snaps, links, fileVars, requests, edits, faults>>
      /\ TypeOK /\ Placed(c) /\ req[c] \in Request /\ req[c].pc = "lock"
  BY Parts DEF Lock, IInv, Client, At
<1>2. req[c].w.id \in 1..ids /\ req[c].w.paths \in Seq(Path)
  <2>1. req[c].w.id # 0
    BY <1>1 DEF Placed, Reading
  <2>2. req[c].w \in Row
    BY <1>1 DEF Request
  <2>3. ids \in Nat
    BY <1>1 DEF TypeOK
  <2> QED BY <2>1, <2>2, <2>3 DEF Row
<1>3. Local /\ Request' = Request /\ req \in [Clients -> Request]
  BY <1>1, <1>2, Begins DEF Lock
<1> DEFINE B(q) == [[q EXCEPT !.touched = {}] EXCEPT !.pc = "begin", !.for = "create", !.cover = DOMAIN q.w.paths]
           S(q) == [[q EXCEPT !.touched = {}] EXCEPT !.pc = "safety"]
<1>4. ASSUME NEW q \in Request
      PROVE  /\ S(q) \in Request /\ B(q) \in Request
             /\ S(q).pc = "safety" /\ S(q).kind = q.kind /\ S(q).w = q.w /\ S(q).t = q.t /\ S(q).cover = q.cover
             /\ S(q).left = q.left /\ S(q).src = q.src /\ S(q).for = q.for /\ S(q).k = q.k /\ S(q).over = q.over
             /\ B(q).pc = "begin" /\ B(q).kind = q.kind /\ B(q).w = q.w /\ B(q).t = q.t
             /\ B(q).cover = DOMAIN q.w.paths /\ B(q).left = q.left /\ B(q).src = q.src
             /\ B(q).for = "create" /\ B(q).k = q.k /\ B(q).over = q.over
  <2>1. DOMAIN q.w.paths \in SUBSET Nat
    <3>1. q.w.paths \in Seq(Path)
      BY DEF Request, Row
    <3> QED BY <3>1
  <2> QED BY <2>1 DEF Request
<1>5. \/ req[c].kind = "create" /\ Set(c, B(req[c]))
      \/ req[c].kind = "restore" /\ Set(c, S(req[c]))
  <2>1. req[c].kind \in {"create", "restore"}
    BY <1>1 DEF Placed, Reading
  <2>2. [req[c] EXCEPT !.touched = {}].kind = req[c].kind /\ [req[c] EXCEPT !.touched = {}].w = req[c].w
    BY <1>1 DEF Request
  <2> QED BY <2>1, <2>2 DEF Lock
<1> HIDE DEF B, S
<1>6. CASE req[c].kind = "create" /\ Set(c, B(req[c]))
  <2>1. req' = [req EXCEPT ![c] = B(req[c])] /\ req'[c] = B(req[c])
    BY <1>3, <1>6 DEF Set
  <2>2. Placed(c)' /\ req'[c].kind # "restore"
    BY <1>1, <1>2, <1>4, <1>6, <2>1 DEF Placed, Reading
  <2> QED BY <1>1, <1>3, <1>4, <2>1, <2>2, Plain, LocalStep
<1>7. CASE req[c].kind = "restore" /\ Set(c, S(req[c]))
  <2>1. req' = [req EXCEPT ![c] = S(req[c])] /\ req'[c] = S(req[c])
    BY <1>3, <1>7 DEF Set
  <2>2. Placed(c)' /\ req'[c].pc = "safety"
    BY <1>1, <1>2, <1>4, <1>7, <2>1 DEF Placed, Reading
  <2> QED BY <1>1, <1>3, <1>4, <2>1, <2>2, Unstarted, LocalStep
<1> QED BY <1>5, <1>6, <1>7

\* A restore about to check its destinations with nothing written owes that
\* every declared path there is saved or said.
LEMMA Guarded ==
    ASSUME NEW c \in Clients, Placed(c)', req'[c].pc = "check",
           \A p \in Path : Declared(c, p)' /\ Untouched(c, p)' /\ live'[p] > 0
                               => Safe(c, p, data[live[p]])'
    PROVE  Client(c)'
<1>1. req'[c].for = "none" /\ req'[c].k = 1 /\ req'[c].over = {}
  BY DEF Placed
<1>2. Swapped(c)' = {}
  BY <1>1 DEF Swapped
<1>3. \A p \in Path : Ahead(c, p)' => Untouched(c, p)' /\ live'[p] > 0
  BY DEF Ahead
<1> QED BY <1>1, <1>2, <1>3 DEF Client, Took, Saves, Delivers, At

LEMMA SafetySnapshotKeeps ==
    ASSUME IInv, NEW c \in Clients, SafetySnapshot(c)
    PROVE  IInv'
<1>1. /\ UNCHANGED <<tableVars, lock, snaps, links, fileVars, requests, edits, faults>>
      /\ TypeOK /\ Placed(c) /\ req[c] \in Request /\ req[c].pc = "safety"
  BY Parts DEF SafetySnapshot, IInv, Client, At
<1>2. Local /\ Request' = Request /\ req \in [Clients -> Request]
  BY <1>1, Begins
<1> DEFINE u == UsableOf(req[c].w)
           said == SkippedOf(req[c].w)
           K(q) == [q EXCEPT !.pc = "check", !.said = Path]
           B(q, v, d) == [q EXCEPT !.pc = "begin", !.for = "safety", !.cover = v, !.said = d]
<1>3. /\ u \subseteq DOMAIN req[c].w.paths /\ u \in SUBSET Nat /\ said \in SUBSET Path
      /\ \A i \in DOMAIN req[c].w.paths : i \in u \/ req[c].w.paths[i] \in said
  <2>1. req[c].w.paths \in Seq(Path)
    BY <1>1 DEF Request, Row
  <2>2. DOMAIN req[c].w.paths \subseteq Nat /\ \A i \in DOMAIN req[c].w.paths : req[c].w.paths[i] \in Path
    BY <2>1
  <2> QED BY <2>2 DEF UsableOf, SkippedOf
<1>4. IF u = {} THEN Set(c, K(req[c])) ELSE Set(c, B(req[c], u, said))
  BY DEF SafetySnapshot
<1> HIDE DEF u, said
<1>5. ASSUME NEW q \in Request, NEW v \in SUBSET Nat, NEW d \in SUBSET Path
      PROVE  /\ K(q) \in Request /\ B(q, v, d) \in Request
             /\ K(q).pc = "check" /\ K(q).kind = q.kind /\ K(q).w = q.w /\ K(q).t = q.t /\ K(q).cover = q.cover
             /\ K(q).left = q.left /\ K(q).src = q.src /\ K(q).for = q.for /\ K(q).k = q.k /\ K(q).over = q.over
             /\ K(q).said = Path
             /\ B(q, v, d).pc = "begin" /\ B(q, v, d).kind = q.kind /\ B(q, v, d).w = q.w /\ B(q, v, d).t = q.t
             /\ B(q, v, d).cover = v /\ B(q, v, d).left = q.left /\ B(q, v, d).src = q.src
             /\ B(q, v, d).for = "safety" /\ B(q, v, d).k = q.k /\ B(q, v, d).over = q.over
             /\ B(q, v, d).said = d
  BY ZenonT(60) DEF Request
<1> HIDE DEF K, B
<1>6. CASE u = {}
  <2> DEFINE r == K(req[c])
  <2>1. req' = [req EXCEPT ![c] = r] /\ req'[c] = r
    BY <1>2, <1>4, <1>6 DEF Set
  <2>2. /\ r \in Request /\ r.pc = "check" /\ r.kind = "restore" /\ r.w = req[c].w /\ r.t = req[c].t
        /\ r.cover = req[c].cover /\ r.left = req[c].left /\ r.src = req[c].src /\ r.for = req[c].for
        /\ r.k = req[c].k /\ r.over = req[c].over /\ r.said = Path
    BY <1>1, <1>5 DEF Placed
  <2>3. /\ r.left = {} /\ r.src = <<>> /\ r.k = 1 /\ r.over = {} /\ r.for = "none" /\ r.w.id # 0 /\ r.t # 0
        /\ r.cover \subseteq DOMAIN r.w.paths
    BY <1>1, <2>2 DEF Placed, Reading
  <2> HIDE DEF r
  <2>4. Placed(c)'
    BY <2>1, <2>2, <2>3 DEF Placed, Reading
  <2>5. Client(c)'
    BY <2>1, <2>2, <2>4, Guarded DEF Safe
  <2> QED BY <1>2, <2>1, <2>2, <2>3, <2>5, LocalStep
<1>7. CASE u # {}
  <2> DEFINE r == B(req[c], u, said)
  <2>1. req' = [req EXCEPT ![c] = r] /\ req'[c] = r
    BY <1>2, <1>4, <1>7 DEF Set
  <2>2. /\ r \in Request /\ r.pc = "begin" /\ r.kind = "restore" /\ r.w = req[c].w /\ r.t = req[c].t
        /\ r.cover = u /\ r.left = req[c].left /\ r.src = req[c].src /\ r.for = "safety" /\ r.k = req[c].k
        /\ r.over = req[c].over /\ r.said = said
    BY <1>1, <1>3, <1>5 DEF Placed
  <2>3. r.left = {} /\ r.src = <<>> /\ r.k = 1 /\ r.over = {} /\ r.w.id # 0 /\ r.t # 0
    BY <1>1, <2>2 DEF Placed, Reading
  <2> HIDE DEF r
  <2>4. Placed(c)'
    BY <1>3, <2>1, <2>2, <2>3 DEF Placed, Reading
  <2>5. Swapped(c)' = {}
    BY <2>1, <2>3 DEF Swapped
  <2>6. Client(c)'
    BY <1>3, <2>1, <2>2, <2>3, <2>4, <2>5 DEF Client, Took, Saves, Delivers, At
  <2> QED BY <1>2, <2>1, <2>2, <2>3, <2>6, LocalStep
<1> QED BY <1>6, <1>7

\* What is brought back, and what was written over, does not depend on where
\* the request is now.
LEMMA Carries ==
    ASSUME NEW c \in Clients, UNCHANGED <<snaps, live, data>>, Delivers(c), Saves(c),
           req[c].pc \notin {"lock", "ok"}, req'[c].kind = req[c].kind, req'[c].t = req[c].t,
           req'[c].k = req[c].k, req'[c].touched = req[c].touched, req'[c].w = req[c].w,
           req'[c].safe = req[c].safe, req[c].said \subseteq req'[c].said, req'[c].over = req[c].over
    PROVE  /\ Delivers(c)'
           /\ \A lost \in req'[c].over : Safe(c, lost[1], lost[2])' \/ ~Declared(c, lost[1])'
           /\ Swapped(c)' = Swapped(c)
           /\ \A p, v : Safe(c, p, v) => Safe(c, p, v)'
           /\ \A p : Declared(c, p)' = Declared(c, p)
<1>1. Swapped(c)' = Swapped(c) /\ Sources(c)' = Sources(c)
  BY DEF Swapped, Sources
<1>2. Delivers(c)'
  BY <1>1 DEF Delivers, Distinct, Untouched, AsIs, Stamp
<1>3. \A p : Declared(c, p)' = Declared(c, p)
  BY DEF Declared
<1>4. \A p, v : Safe(c, p, v) => Safe(c, p, v)'
  BY DEF Safe, Holds
<1> QED BY <1>1, <1>2, <1>3, <1>4 DEF Saves

\* An engine call for a snapshot that fails ends the request, or the safety
\* snapshot with everything named.
LEMMA RefusedKeeps ==
    ASSUME IInv, NEW c \in Clients, req[c].pc \in {"begin", "take"}, Refused(c),
           UNCHANGED <<tableVars, snaps, links, fileVars, requests, edits>>, faults' \in 0..MaxFaults
    PROVE  IInv'
<1>1. /\ TypeOK /\ Placed(c) /\ req[c] \in Request /\ req \in [Clients -> Request]
      /\ worksets' \in [Names -> Row] /\ ids' = ids
      /\ requests' \in 0..MaxRequests /\ edits' \in 0..MaxEdits
  BY Parts DEF IInv, Client, tableVars, TypeOK
<1>2. CASE req[c].for # "safety"
  <2>1. req' = [req EXCEPT ![c] = NoRequest] /\ lock' = [i \in DOMAIN lock \ Held(c) |-> lock[i]]
    BY <1>2 DEF Refused, Answers, Set
  <2> QED BY <1>1, <2>1, Ends
<1>3. CASE req[c].for = "safety"
  <2> DEFINE K(q) == [[q EXCEPT !.pc = "check", !.for = "none", !.cover = {}, !.left = {}, !.src = <<>>]
                         EXCEPT !.said = Path]
             r == K(req[c])
  <2>1. Set(c, r) /\ lock' = lock
    BY <1>3 DEF Refused, Over
  <2>2. Local
    <3>1. Row' = Row
      BY <1>1 DEF Row
    <3> QED BY <1>1, <2>1, <3>1 DEF Local, Tables, TypeOK
  <2>3. Request' = Request
    BY <1>1, Sets DEF Request, Row
  <2>4. \A q \in Request : /\ K(q) \in Request /\ K(q).pc = "check" /\ K(q).kind = q.kind /\ K(q).w = q.w
                           /\ K(q).t = q.t /\ K(q).cover = {} /\ K(q).left = {} /\ K(q).src = <<>>
                           /\ K(q).for = "none" /\ K(q).k = q.k /\ K(q).over = q.over /\ K(q).said = Path
    <3> SUFFICES ASSUME NEW q \in Request
                 PROVE  /\ K(q) \in Request /\ K(q).pc = "check" /\ K(q).kind = q.kind /\ K(q).w = q.w
                        /\ K(q).t = q.t /\ K(q).cover = {} /\ K(q).left = {} /\ K(q).src = <<>>
                        /\ K(q).for = "none" /\ K(q).k = q.k /\ K(q).over = q.over /\ K(q).said = Path
      OBVIOUS
    <3> DEFINE o == [q EXCEPT !.pc = "check", !.for = "none", !.cover = {}, !.left = {}, !.src = <<>>]
    <3>1. <<>> \in Seq(Source)
      OBVIOUS
    <3>2. /\ o \in Request /\ o.pc = "check" /\ o.kind = q.kind /\ o.w = q.w /\ o.t = q.t
          /\ o.cover = {} /\ o.left = {} /\ o.src = <<>> /\ o.for = "none" /\ o.k = q.k /\ o.over = q.over
      BY <3>1 DEF Request
    <3>3. K(q) = [o EXCEPT !.said = Path]
      OBVIOUS
    <3> HIDE DEF o, K
    <3> QED BY <3>2, <3>3, ZenonT(60) DEF Request
  <2> HIDE DEF K
  <2>5. req' = [req EXCEPT ![c] = r] /\ req'[c] = r
    BY <1>1, <2>1 DEF Set
  <2>6. /\ r \in Request /\ r.pc = "check" /\ r.kind = "restore" /\ r.w.id # 0 /\ r.t # 0
        /\ r.cover = {} /\ r.left = {} /\ r.src = <<>> /\ r.for = "none" /\ r.k = 1
        /\ r.over = {} /\ r.said = Path
    BY <1>1, <1>3, <2>4 DEF Placed, Reading
  <2> HIDE DEF r
  <2>7. Placed(c)'
    BY <2>5, <2>6 DEF Placed, Reading
  <2>8. Client(c)'
    BY <2>5, <2>6, <2>7, Guarded DEF Safe
  <2> QED BY <2>2, <2>3, <2>5, <2>6, <2>8, LocalStep
<1> QED BY <1>2, <1>3

LEMMA FailTakeKeeps ==
    ASSUME IInv, NEW c \in Clients, FailTake(c) \/ FailPut(c)
    PROVE  IInv'
<1>1. TypeOK
  BY DEF IInv
<1>2. /\ Refused(c) /\ req[c].pc = "take"
      /\ UNCHANGED <<tableVars, snaps, links, fileVars, requests, edits>>
  BY DEF FailTake, FailPut, InTurn, At
<1>3. faults' \in 0..MaxFaults
  BY <1>1, WorkingSetAssumption DEF FailTake, FailPut, Trips, TypeOK
<1> QED BY <1>2, <1>3, RefusedKeeps

LEMMA CheckSourcesKeeps ==
    ASSUME IInv, NEW c \in Clients, CheckSources(c)
    PROVE  IInv'
<1>1. /\ UNCHANGED <<tableVars, snaps, links, fileVars, requests, edits, faults>>
      /\ TypeOK /\ Client(c) /\ Placed(c) /\ req[c] \in Request /\ req[c].pc = "begin"
  BY Parts DEF CheckSources, IInv, Client, At
<1>2. CASE Refused(c)
  <2>1. faults' \in 0..MaxFaults
    BY <1>1 DEF TypeOK
  <2> QED BY <1>1, <1>2, <2>1, RefusedKeeps
<1>3. CASE Set(c, [req[c] EXCEPT !.pc = "take", !.left = req[c].cover]) /\ UNCHANGED lock
  <2> DEFINE T(q, v) == [q EXCEPT !.pc = "take", !.left = v]
             r == T(req[c], req[c].cover)
  <2>1. Local /\ Request' = Request /\ req \in [Clients -> Request]
    BY <1>1, <1>3, Begins
  <2>2. ASSUME NEW q \in Request, NEW v \in SUBSET Nat
        PROVE  /\ T(q, v) \in Request /\ T(q, v).pc = "take" /\ T(q, v).kind = q.kind /\ T(q, v).w = q.w
               /\ T(q, v).t = q.t /\ T(q, v).cover = q.cover /\ T(q, v).left = v /\ T(q, v).src = q.src
               /\ T(q, v).for = q.for /\ T(q, v).k = q.k /\ T(q, v).over = q.over /\ T(q, v).said = q.said
               /\ T(q, v).safe = q.safe /\ T(q, v).touched = q.touched
    BY DEF Request
  <2>3. req[c].cover \in SUBSET Nat
    BY <1>1 DEF Request
  <2>4. req' = [req EXCEPT ![c] = r] /\ req'[c] = r
    BY <1>3, <2>1 DEF Set
  <2> HIDE DEF T
  <2>5. /\ r \in Request /\ r.pc = "take" /\ r.kind = req[c].kind /\ r.w = req[c].w
        /\ r.t = req[c].t /\ r.cover = req[c].cover /\ r.left = req[c].cover /\ r.src = req[c].src
        /\ r.for = req[c].for /\ r.k = req[c].k /\ r.over = req[c].over /\ r.said = req[c].said
        /\ r.safe = req[c].safe /\ r.touched = req[c].touched
    BY <1>1, <2>2, <2>3
  <2>6. r.src = <<>>
    BY <1>1, <2>5 DEF Placed
  <2> HIDE DEF r
  <2>7. UNCHANGED <<snaps, live, data>>
    BY <1>1 DEF fileVars
  <2>8. Placed(c)'
    <3>1. Sources(c)' = Sources(c)
      BY <2>4, <2>5, <2>7 DEF Sources
    <3> QED BY <1>1, <2>4, <2>5, <2>6, <3>1 DEF Placed, Reading
  <2>9. Delivers(c)' /\ \A lost \in req'[c].over : Safe(c, lost[1], lost[2])' \/ ~Declared(c, lost[1])'
    BY <1>1, <2>4, <2>5, <2>7, Carries DEF Client
  <2>10. Took(c)'
    BY <2>4, <2>5, <2>6 DEF Took
  <2>11. Saves(c)'
    BY <1>1, <2>4, <2>5, <2>9 DEF Client, Saves
  <2> QED BY <2>1, <2>4, <2>5, <2>8, <2>9, <2>10, <2>11, LocalStep DEF Client
<1> QED BY <1>2, <1>3 DEF CheckSources

LEMMA CheckDestinationsKeeps ==
    ASSUME IInv, NEW c \in Clients, CheckDestinations(c)
    PROVE  IInv'
<1>1. /\ UNCHANGED <<tableVars, snaps, links, fileVars, requests, edits, faults>>
      /\ TypeOK /\ Client(c) /\ Placed(c) /\ req[c] \in Request /\ req[c].pc = "check"
      /\ req \in [Clients -> Request]
  BY Parts DEF CheckDestinations, IInv, Client, At, TypeOK
<1>2. CASE Answers(c, "error", req[c])
  <2>1. req' = [req EXCEPT ![c] = NoRequest] /\ lock' = [i \in DOMAIN lock \ Held(c) |-> lock[i]]
    BY <1>2 DEF Answers, Set
  <2>2. /\ worksets' \in [Names -> Row] /\ ids' = ids /\ requests' \in 0..MaxRequests
        /\ edits' \in 0..MaxEdits /\ faults' \in 0..MaxFaults
    BY <1>1 DEF TypeOK, tableVars
  <2> QED BY <1>1, <2>1, <2>2, Ends
<1>3. CASE Set(c, [req[c] EXCEPT !.pc = "swap", !.k = 1]) /\ UNCHANGED lock
  <2> DEFINE T(q) == [q EXCEPT !.pc = "swap", !.k = 1]
             r == T(req[c])
  <2>1. Local /\ Request' = Request
    BY <1>1, <1>3, Begins
  <2>2. ASSUME NEW q \in Request
        PROVE  /\ T(q) \in Request /\ T(q).pc = "swap" /\ T(q).kind = q.kind /\ T(q).w = q.w
               /\ T(q).t = q.t /\ T(q).cover = q.cover /\ T(q).left = q.left /\ T(q).src = q.src
               /\ T(q).for = q.for /\ T(q).k = 1 /\ T(q).over = q.over /\ T(q).said = q.said
               /\ T(q).safe = q.safe /\ T(q).touched = q.touched
    BY DEF Request
  <2>3. req' = [req EXCEPT ![c] = r] /\ req'[c] = r
    BY <1>1, <1>3 DEF Set
  <2> HIDE DEF T
  <2>4. /\ r \in Request /\ r.pc = "swap" /\ r.kind = req[c].kind /\ r.w = req[c].w
        /\ r.t = req[c].t /\ r.cover = req[c].cover /\ r.left = req[c].left /\ r.src = req[c].src
        /\ r.for = req[c].for /\ r.k = 1 /\ r.over = req[c].over /\ r.said = req[c].said
        /\ r.safe = req[c].safe /\ r.touched = req[c].touched
    BY <1>1, <2>2
  <2>5. /\ req[c].kind = "restore" /\ req[c].for = "none" /\ req[c].k = 1 /\ req[c].left = {} /\ req[c].src = <<>>
        /\ req[c].w.id # 0 /\ req[c].t # 0 /\ req[c].over = {} /\ req[c].cover \subseteq DOMAIN req[c].w.paths
    BY <1>1 DEF Placed, Reading
  <2> HIDE DEF r
  <2>6. UNCHANGED <<snaps, live, data>>
    BY <1>1 DEF fileVars
  <2>7. Len(Sources(c)') \in Nat
    <3>1. Sources(c)' = Sources(c)
      BY <2>3, <2>4, <2>6 DEF Sources
    <3> QED BY <2>5, <3>1, Target
  <2>8. Placed(c)'
    BY <2>3, <2>4, <2>5, <2>7 DEF Placed, Reading
  <2>9. /\ Delivers(c)' /\ Swapped(c)' = Swapped(c)
        /\ \A lost \in req'[c].over : Safe(c, lost[1], lost[2])' \/ ~Declared(c, lost[1])'
        /\ \A p, v : Safe(c, p, v) => Safe(c, p, v)'
        /\ \A p : Declared(c, p)' = Declared(c, p)
    BY <1>1, <2>3, <2>4, <2>5, <2>6, Carries DEF Client
  <2>10. Took(c)'
    BY <2>3, <2>4 DEF Took, At
  <2>11. \A p \in Path : Declared(c, p)' /\ Ahead(c, p)' => Safe(c, p, data[live[p]])'
    <3>1. \A p \in Path : Ahead(c, p)' = Ahead(c, p)
      BY <2>3, <2>4, <2>6, <2>9 DEF Ahead, Untouched, Sources
    <3>2. \A p \in Path : Declared(c, p) /\ Ahead(c, p) => Safe(c, p, data[live[p]])
      BY <1>1 DEF Client, Saves
    <3> QED BY <2>6, <2>9, <3>1, <3>2
  <2>12. Saves(c)'
    BY <2>3, <2>4, <2>5, <2>9, <2>11 DEF Saves
  <2> QED BY <2>1, <2>3, <2>4, <2>5, <2>8, <2>9, <2>10, <2>12, LocalStep DEF Client
<1> QED BY <1>2, <1>3 DEF CheckDestinations

LEMMA FailSwapKeeps ==
    ASSUME IInv, NEW c \in Clients, FailSwap(c) \/ Done(c)
    PROVE  IInv'
<1>1. TypeOK
  BY DEF IInv
<1>2. /\ UNCHANGED <<snaps, links, fileVars>> /\ req' = [req EXCEPT ![c] = NoRequest]
      /\ lock' = lock \/ lock' = [i \in DOMAIN lock \ Held(c) |-> lock[i]]
  BY DEF FailSwap, Done, Answers, Set
<1>3. /\ worksets' \in [Names -> Row] /\ ids' = ids /\ requests' \in 0..MaxRequests
      /\ edits' \in 0..MaxEdits /\ faults' \in 0..MaxFaults
  BY <1>1, WorkingSetAssumption DEF FailSwap, Done, Trips, TypeOK, tableVars
<1> QED BY <1>2, <1>3, Ends

LEMMA RecordRestoreKeeps ==
    ASSUME IInv, NEW c \in Clients, RecordRestore(c)
    PROVE  IInv'
<1>1. /\ UNCHANGED <<tableVars, snaps, links, fileVars, requests, edits, faults>>
      /\ TypeOK /\ Client(c) /\ Placed(c) /\ req[c] \in Request /\ req[c].pc = "swap"
      /\ req[c].k = Len(Sources(c)) + 1 /\ req \in [Clients -> Request]
  BY Parts DEF RecordRestore, IInv, Client, At, TypeOK
<1> DEFINE u == UsableOf(req[c].w)
           said == SkippedOf(req[c].w)
           r == [req[c] EXCEPT !.pc = "begin", !.for = "record", !.cover = u, !.said = @ \union said]
<1>2. CASE Answers(c, "error", req[c])
  <2>1. req' = [req EXCEPT ![c] = NoRequest] /\ lock' = [i \in DOMAIN lock \ Held(c) |-> lock[i]]
    BY <1>2 DEF Answers, Set
  <2>2. /\ worksets' \in [Names -> Row] /\ ids' = ids /\ requests' \in 0..MaxRequests
        /\ edits' \in 0..MaxEdits /\ faults' \in 0..MaxFaults
    BY <1>1 DEF TypeOK, tableVars
  <2> QED BY <1>1, <2>1, <2>2, Ends
<1>3. CASE Set(c, r) /\ UNCHANGED lock
  <2>1. Local /\ Request' = Request
    BY <1>1, <1>3, Begins
  <2>2. u \subseteq DOMAIN req[c].w.paths /\ u \in SUBSET Nat /\ said \in SUBSET Path
    <3>1. req[c].w.paths \in Seq(Path)
      BY <1>1 DEF Request, Row
    <3>2. /\ DOMAIN req[c].w.paths \subseteq Nat
          /\ \A i \in DOMAIN req[c].w.paths : req[c].w.paths[i] \in Path
      BY <3>1
    <3> QED BY <3>2 DEF UsableOf, SkippedOf
  <2> HIDE DEF u, said
  <2>4. req' = [req EXCEPT ![c] = r] /\ req'[c] = r
    BY <1>1, <1>3 DEF Set
  <2>5. /\ r \in Request /\ r.pc = "begin" /\ r.kind = req[c].kind /\ r.w = req[c].w
        /\ r.t = req[c].t /\ r.cover = u /\ r.left = req[c].left /\ r.src = req[c].src
        /\ r.for = "record" /\ r.k = req[c].k /\ r.over = req[c].over
        /\ r.said = req[c].said \union said /\ r.safe = req[c].safe /\ r.touched = req[c].touched
    BY <1>1, <2>2 DEF Request
  <2>6. /\ req[c].kind = "restore" /\ req[c].left = {} /\ req[c].src = <<>>
        /\ req[c].w.id # 0 /\ req[c].t # 0
    BY <1>1 DEF Placed, Reading
  <2> HIDE DEF r
  <2>7. UNCHANGED <<snaps, live, data>>
    BY <1>1 DEF fileVars
  <2>8. Placed(c)'
    <3>1. Sources(c)' = Sources(c)
      BY <2>4, <2>5, <2>7 DEF Sources
    <3> QED BY <1>1, <2>2, <2>4, <2>5, <2>6, <3>1 DEF Placed, Reading
  <2>9. Delivers(c)' /\ \A lost \in req'[c].over : Safe(c, lost[1], lost[2])' \/ ~Declared(c, lost[1])'
    BY <1>1, <2>4, <2>5, <2>7, Carries DEF Client
  <2>10. Took(c)' /\ Saves(c)'
    BY <2>4, <2>5, <2>9 DEF Took, Saves, At
  <2> QED BY <2>1, <2>4, <2>5, <2>6, <2>8, <2>9, <2>10, LocalStep DEF Client
<1> QED BY <1>2, <1>3 DEF RecordRestore

-----------------------------------------------------------------------------
(***************************************************************************)
(* Steps that make files or snapshots.                                     *)
(***************************************************************************)
\* The types of a state in which files were added or written, from those of
\* what changed.
LEMMA TypesAfter ==
    ASSUME TypeOK, World({}) \/ \E W \in SUBSET Path : World(W),
           Tables', ids' = ids, worksets' = worksets, links' = links,
           data' \in Seq(1..clock'), clock' \in Nat, clock' >= clock,
           snaps' \in Seq(Snapshot'),
           live' \in [Path -> {Missing, Link, Empty} \union 1..Len(data')],
           fresh' \in [Path -> 0..Len(snaps')], spoilt' \subseteq Nat \X Path,
           req' \in [Clients -> Request'], \A c \in Clients : Placed(c)'
    PROVE  TypeOK'
<1>1. \A c \in Clients : At(c, "swap")' => req'[c].k \in 1..(Len(Sources(c)') + 1)
  BY DEF Placed, At
<1> QED BY <1>1 DEF TypeOK, Tables

LEMMA TakePathKeeps ==
    ASSUME IInv, NEW c \in Clients, TakePath(c)
    PROVE  IInv'
<1>1. /\ UNCHANGED <<worksets, ids, lock, snaps, links, live, clock, fresh, spoilt, requests, edits, faults>>
      /\ TypeOK /\ Apart /\ Keeps /\ Client(c) /\ Placed(c) /\ req[c] \in Request /\ req \in [Clients -> Request]
  BY Parts DEF TakePath, IInv, Client, TypeOK, tableVars
<1>2. PICK i \in req[c].left :
          LET p == req[c].w.paths[i]
              own == live[p] > 0 /\ ~links
              file == IF own THEN Len(data) + 1 ELSE live[p]
          IN /\ InTurn(c, i) /\ Usable(p)
             /\ data' = IF own THEN Append(data, data[live[p]]) ELSE data
             /\ Set(c, [req[c] EXCEPT !.left = @ \ {i},
                                      !.src = Append(@, [path |-> p, file |-> file])])
  BY DEF TakePath
<1> DEFINE p == req[c].w.paths[i]
           own == live[p] > 0 /\ ~links
           file == IF own THEN Len(data) + 1 ELSE live[p]
           e == [path |-> p, file |-> file]
           r == [req[c] EXCEPT !.left = @ \ {i}, !.src = Append(@, e)]
<1>3. req[c].pc = "take" /\ i \in req[c].cover /\ i \in DOMAIN req[c].w.paths /\ p \in Path
  <2>1. req[c].w.paths \in Seq(Path)
    BY <1>1 DEF Request, Row
  <2>2. i \in DOMAIN req[c].w.paths /\ i \in req[c].cover
    BY <1>1 DEF Placed
  <2> QED BY <1>2, <2>1, <2>2 DEF InTurn, At
<1>4. live[p] \in {Empty} \union 1..Len(data) /\ Len(data) \in Nat /\ data \in Seq(1..clock)
  BY <1>1, <1>2, <1>3, Parts DEF Usable, TypeOK
<1>5. /\ data' = (IF own THEN Append(data, data[live[p]]) ELSE data)
      /\ req' = [req EXCEPT ![c] = r]
  BY <1>2 DEF Set
<1>6. /\ data' \in Seq(1..clock) /\ Len(data') \in Nat /\ Len(data') >= Len(data)
      /\ \A f \in 1..Len(data) : data'[f] = data[f]
  <2>1. CASE own
    <3>1. live[p] \in 1..Len(data)
      BY <1>4, <2>1 DEF Empty
    <3>2. data[live[p]] \in 1..clock
      BY <1>1, <3>1, Stamps
    <3> DEFINE v == data[live[p]]
    <3>3. v \in 1..clock /\ data' = Append(data, v)
      BY <1>5, <2>1, <3>2
    <3> HIDE DEF v
    <3> QED BY <1>4, <3>3
  <2>2. CASE ~own
    <3>1. data' = data
      BY <1>5, <2>2
    <3> QED BY <1>4, <3>1
  <2> QED BY <2>1, <2>2
<1>7. World({})
  <2>1. snaps' = snaps /\ live' = live /\ Len(snaps) \in Nat
    BY <1>1, Parts
  <2> QED BY <1>6, <2>1 DEF World
<1>16. /\ file \in {Empty} \union 1..Len(data')
       /\ (IF file > 0 THEN data'[file] ELSE 0) = (IF live[p] > 0 THEN data[live[p]] ELSE 0)
  <2>1. CASE own
    <3>1. live[p] > 0 /\ file = Len(data) + 1 /\ data' = Append(data, data[live[p]])
      BY <1>5, <2>1
    <3>2. data'[Len(data) + 1] = data[live[p]] /\ Len(data') = Len(data) + 1
      BY <1>4, <3>1
    <3> QED BY <1>4, <3>1, <3>2
  <2>2. CASE ~own
    <3>1. data' = data /\ file = live[p]
      BY <1>5, <2>2
    <3> QED BY <1>4, <3>1
  <2> QED BY <2>1, <2>2
<1>8. file > 0 => IF own THEN file = Len(data) + 1 ELSE links /\ file = live[p]
  BY <1>4 DEF Empty
<1> HIDE DEF own, file
<1>9. /\ e \in Source' /\ Request \subseteq Request' /\ Snapshot \subseteq Snapshot'
  <2>1. e \in Source'
    BY <1>3, <1>16 DEF Source
  <2>2. Grown
    BY <1>1, <1>6, Parts DEF Grown, TypeOK
  <2> QED BY <1>1, <1>6, <2>1, <2>2, Parts, TypesGrow
<1>10. /\ req'[c] = r /\ \A d \in Clients \ {c} : req'[d] = req[d]
  BY <1>1, <1>5
<1>11. /\ r \in Request' /\ r.pc = "take" /\ r.kind = req[c].kind /\ r.name = req[c].name /\ r.w = req[c].w
       /\ r.t = req[c].t /\ r.cover = req[c].cover /\ r.left = req[c].left \ {i} /\ r.src = Append(req[c].src, e)
       /\ r.for = req[c].for /\ r.k = req[c].k /\ r.safe = req[c].safe /\ r.said = req[c].said
       /\ r.over = req[c].over /\ r.touched = req[c].touched
  <2>1. req[c] \in Request' /\ Append(req[c].src, e) \in Seq(Source') /\ req[c].left \ {i} \in SUBSET Nat
    <3>1. req[c] \in Request'
      BY <1>1, <1>9
    <3>2. req[c].src \in Seq(Source') /\ req[c].left \in SUBSET Nat
      BY <3>1 DEF Request
    <3> HIDE DEF e
    <3> QED BY <1>9, <3>1, <3>2
  <2> HIDE DEF e
  <2> QED BY <1>3, <2>1 DEF Request
<1>12. /\ req[c].src \in Seq(Source) /\ Len(r.src) = Len(req[c].src) + 1 /\ Len(req[c].src) \in Nat
       /\ DOMAIN r.src = 1..Len(r.src) /\ DOMAIN req[c].src = 1..Len(req[c].src)
       /\ \A k \in DOMAIN req[c].src : r.src[k] = req[c].src[k]
       /\ r.src[Len(r.src)] = e
  <2>1. req[c].src \in Seq(Source)
    BY <1>1 DEF Request
  <2> HIDE DEF e, r
  <2> QED BY <1>11, <2>1
<1>13. r.src[Len(r.src)].path = p /\ r.src[Len(r.src)].file = file
  BY <1>12
<1> HIDE DEF e, r
<1>14. \A d \in Clients \ {c} : Client(d)'
  <2> SUFFICES ASSUME NEW d \in Clients \ {c} PROVE Client(d)'
    OBVIOUS
  <2>1. Like(d, {})
    BY <1>10 DEF Like
  <2> QED BY <1>7, <2>1, ClientKept
<1>15. Placed(c)'
  <2>1. Sources(c)' = Sources(c)
    BY <1>1, <1>10, <1>11 DEF Sources
  <2> QED BY <1>1, <1>3, <1>10, <1>11, <2>1 DEF Placed, Reading
<1> DEFINE new == req'[c].src
           old == req[c].src
<1>17. /\ req'[c].pc = "take" /\ req'[c].kind = req[c].kind /\ req'[c].w = req[c].w /\ req'[c].t = req[c].t
       /\ req'[c].cover = req[c].cover /\ req'[c].left = req[c].left \ {i} /\ req'[c].for = req[c].for
       /\ req'[c].k = req[c].k /\ req'[c].safe = req[c].safe /\ req'[c].said = req[c].said
       /\ req'[c].over = req[c].over /\ req'[c].touched = req[c].touched
       /\ Len(new) = Len(old) + 1 /\ DOMAIN new = 1..Len(new) /\ DOMAIN old = 1..Len(old) /\ Len(old) \in Nat
       /\ \A k \in DOMAIN old : new[k] = old[k]
       /\ new[Len(new)].path = p /\ new[Len(new)].file = file
  BY <1>10, <1>11, <1>12, <1>13
<1>18. \A k \in DOMAIN new : \/ k \in DOMAIN old /\ new[k] = old[k] /\ new[k] \in Source
                             \/ new[k].path = p /\ new[k].file = file
  <2> SUFFICES ASSUME NEW k \in DOMAIN new, k # Len(new)
               PROVE  k \in DOMAIN old /\ new[k] = old[k] /\ new[k] \in Source
    BY <1>17
  <2>1. k \in DOMAIN old
    BY <1>17
  <2> QED BY <1>1, <1>17, <2>1, Parts
<1>19. \A f \in {Empty, Missing, Link} \union 1..Len(data) :
          (IF f > 0 THEN data'[f] ELSE 0) = Stamp(f)
  BY <1>6 DEF Stamp, Empty, Missing, Link
<1>20. Took(c)'
  <2>1. ASSUME req[c].kind = "restore"
        PROVE  /\ \A j \in req[c].cover \ req[c].left : \E k \in DOMAIN old : old[k].path = req[c].w.paths[j]
               /\ \A k \in DOMAIN old : old[k].path \notin req[c].touched => AsIs(old[k].file, old[k].path)
    BY <1>1, <1>3, <2>1 DEF Client, Took, At, Untouched
  <2>2. ASSUME req[c].kind = "restore", NEW j \in req'[c].cover \ req'[c].left
        PROVE  \E k \in DOMAIN new : new[k].path = req'[c].w.paths[j]
    <3>1. CASE j = i
      <4>1. Len(new) \in DOMAIN new
        BY <1>17
      <4> QED BY <1>17, <3>1, <4>1
    <3>2. CASE j # i
      <4>1. j \in req[c].cover \ req[c].left
        BY <1>17, <2>2, <3>2
      <4>2. PICK k \in DOMAIN old : old[k].path = req[c].w.paths[j]
        BY <2>1, <2>2, <4>1
      <4>3. k \in DOMAIN new
        BY <1>17
      <4> QED BY <1>17, <4>2, <4>3
    <3> QED BY <3>1, <3>2
  <2>3. ASSUME req[c].kind = "restore", NEW k \in DOMAIN new, new[k].path \notin req[c].touched
        PROVE  AsIs(req[c].src[k].file, req[c].src[k].path)'
    <3>1. CASE k \in DOMAIN old /\ new[k] = old[k] /\ new[k] \in Source
      <4>1. AsIs(old[k].file, old[k].path) /\ old[k].path \in Path
        BY <2>1, <2>3, <3>1 DEF Source
      <4>2. (IF old[k].file > 0 THEN data'[old[k].file] ELSE 0) = Stamp(old[k].file)
        BY <1>19, <3>1 DEF Source
      <4>3. /\ live' = live
            /\ (IF live[old[k].path] > 0 THEN data'[live[old[k].path]] ELSE 0) = Stamp(live[old[k].path])
        BY <1>1, <1>19, <4>1, Parts
      <4> QED BY <3>1, <4>1, <4>2, <4>3 DEF AsIs, Stamp
    <3>2. CASE new[k].path = p /\ new[k].file = file
      <4>1. live' = live /\ (IF live[p] > 0 THEN data'[live[p]] ELSE 0) = Stamp(live[p])
        BY <1>1, <1>4, <1>19
      <4> QED BY <1>16, <3>2, <4>1 DEF AsIs, Stamp
    <3> QED BY <1>18, <3>1, <3>2
  <2> HIDE DEF new, old
  <2> QED BY <1>17, <2>2, <2>3 DEF Took, At, Untouched, new
<1>21. Saves(c)'
  <2>1. \A q, v : Safe(c, q, v) => Safe(c, q, v)'
    BY <1>7, <1>17, SafeOn
  <2>2. \A q : Declared(c, q)' = Declared(c, q)
    BY <1>17 DEF Declared
  <2> QED BY <1>1, <1>17, <2>1, <2>2 DEF Client, Saves
<1>22. Delivers(c)'
  <2>1. CASE req[c].kind = "restore"
    BY <1>3, <1>7, <1>17, <2>1, DeliversOn
  <2>2. CASE req[c].kind # "restore"
    BY <1>17, <2>2 DEF Delivers
  <2> QED BY <2>1, <2>2
<1>23. Apart'
  <2>1. \A d \in Clients : \A k \in DOMAIN req'[d].src : \A q \in Path :
           live[q] > 0 /\ req'[d].src[k].file = live[q] => links /\ req'[d].src[k].path = q
    <3> SUFFICES ASSUME NEW d \in Clients, NEW k \in DOMAIN req'[d].src, NEW q \in Path,
                        live[q] > 0, req'[d].src[k].file = live[q]
                 PROVE  links /\ req'[d].src[k].path = q
      OBVIOUS
    <3>1. CASE d # c
      BY <1>1, <1>10, <3>1 DEF Apart
    <3>2. CASE d = c /\ k \in DOMAIN old /\ new[k] = old[k]
      BY <1>1, <3>2 DEF Apart
    <3>3. CASE d = c /\ new[k].path = p /\ new[k].file = file
      <4>1. file = live[q] /\ live[q] \in 1..Len(data)
        BY <1>1, <3>3, Parts DEF Missing, Link, Empty
      <4>2. links /\ file = live[p]
        BY <1>4, <1>8, <4>1
      <4>3. p = q
        BY <1>1, <1>3, <4>1, <4>2, ZenonT(60) DEF Apart
      <4> QED BY <3>3, <4>2, <4>3
    <3> QED BY <1>18, <3>1, <3>2, <3>3
  <2> QED BY <1>1, <2>1 DEF Apart
<1>24. Keeps'
  <2>1. \A s \in DOMAIN snaps : \A k \in DOMAIN snaps[s].src :
           Stamp(snaps[s].src[k].file)' = Stamp(snaps[s].src[k].file)
    <3> SUFFICES ASSUME NEW s \in DOMAIN snaps, NEW k \in DOMAIN snaps[s].src
                 PROVE  Stamp(snaps[s].src[k].file)' = Stamp(snaps[s].src[k].file)
      OBVIOUS
    <3>1. snaps[s].src[k].file \in {Empty, Missing, Link} \union 1..Len(data) /\ snaps' = snaps
      BY <1>1, Parts DEF Source
    <3> QED BY <1>19, <3>1 DEF Stamp
  <2> QED BY <1>1, <2>1 DEF Keeps, SnapshotsKeepTheirContent
<1>25. TypeOK'
  <2>1. \A d \in Clients : Placed(d)'
    BY <1>14, <1>15 DEF Client
  <2>2. req' \in [Clients -> Request']
    BY <1>1, <1>5, <1>9, <1>11 DEF r
  <2>3. Row' = Row /\ Tables'
    BY <1>1 DEF Row, Tables, TypeOK
  <2>4. snaps' \in Seq(Snapshot')
    BY <1>1, <1>9, Parts DEF TypeOK
  <2>5. /\ live' \in [Path -> {Missing, Link, Empty} \union 1..Len(data')]
        /\ fresh' \in [Path -> 0..Len(snaps')] /\ spoilt' \subseteq Nat \X Path
        /\ data' \in Seq(1..clock') /\ clock' \in Nat /\ clock' >= clock
    BY <1>1, <1>4, <1>6, SMTT(40) DEF TypeOK
  <2> QED BY <1>1, <1>7, <2>1, <2>2, <2>3, <2>4, <2>5, TypesAfter
<1> QED BY <1>14, <1>15, <1>20, <1>21, <1>22, <1>23, <1>24, <1>25 DEF IInv, Client

LEMMA Located ==
    ASSUME NEW r \in Request, NEW kd \in {"none", "declare", "create", "restore"}, NEW w \in Row,
           NEW i \in 0..Len(snaps), NEW s \in 0..Len(snaps)
    PROVE  [r EXCEPT !.pc = "ok", !.kind = kd, !.w = w, !.t = i, !.safe = s] \in Request
<1> QED BY DEF Request

LEMMA Reported ==
    ASSUME NEW r \in Request, NEW d \in SUBSET Path, NEW v \in SUBSET (Path \X Nat)
    PROVE  [r EXCEPT !.said = d, !.over = v] \in Request
<1> QED BY DEF Request

\* What a restore answers is what it knew.
Answer(q) == [NoRequest EXCEPT !.pc = "ok", !.kind = q.kind, !.w = q.w, !.t = q.t, !.safe = q.safe,
                               !.said = q.said, !.over = q.over]

LEMMA AnswerIs ==
    ASSUME TypeOK, NEW q \in Request
    PROVE  /\ Answer(q) \in Request
           /\ Answer(q).pc = "ok" /\ Answer(q).kind = q.kind /\ Answer(q).w = q.w /\ Answer(q).t = q.t
           /\ Answer(q).safe = q.safe /\ Answer(q).said = q.said /\ Answer(q).over = q.over
           /\ Answer(q).src = <<>> /\ Answer(q).for = "none" /\ Answer(q).k = 1
           /\ Answer(q).left = {} /\ Answer(q).cover = {}
<1> DEFINE A(x) == [x EXCEPT !.pc = "ok", !.kind = q.kind, !.w = q.w, !.t = q.t, !.safe = q.safe]
           B(x) == [x EXCEPT !.said = q.said, !.over = q.over]
<1>2. /\ q.kind \in {"none", "declare", "create", "restore"} /\ q.w \in Row /\ q.t \in 0..Len(snaps)
      /\ q.safe \in 0..Len(snaps) /\ q.said \in SUBSET Path /\ q.over \in SUBSET (Path \X Nat)
  BY DEF Request
<1>3. NoRequest \in Request
  BY NoneAsked
<1>4. A(NoRequest) \in Request
  BY <1>2, <1>3, Located
<1>5. B(A(NoRequest)) \in Request
  <2> HIDE DEF A
  <2> QED BY <1>2, <1>4, Reported
<1>6. Answer(q) = B(A(NoRequest))
  BY DEF Answer
<1> QED BY <1>5, <1>6 DEF Answer, NoRequest

LEMMA Answered ==
    ASSUME IInv, NEW c \in Clients, req[c].kind = "restore", World({}), Request \subseteq Request',
           req' = [req EXCEPT ![c] = Answer(req[c])]
    PROVE  req'[c] \in Request' /\ req'[c].src = <<>> /\ Client(c)'
<1>1. TypeOK /\ Client(c) /\ req[c] \in Request /\ req \in [Clients -> Request]
  BY Parts DEF IInv, TypeOK
<1>2. req'[c] = Answer(req[c])
  BY <1>1
<1>4. /\ req'[c] \in Request' /\ req'[c].pc = "ok" /\ req'[c].kind = "restore" /\ req'[c].w = req[c].w
      /\ req'[c].t = req[c].t /\ req'[c].safe = req[c].safe /\ req'[c].said = req[c].said
      /\ req'[c].over = req[c].over /\ req'[c].src = <<>> /\ req'[c].for = "none" /\ req'[c].k = 1
      /\ req'[c].left = {} /\ req'[c].cover = {}
  BY <1>1, <1>2, AnswerIs
<1>5. \A q, v : Safe(c, q, v) => Safe(c, q, v)'
  BY <1>4, SafeOn
<1>6. \A q : Declared(c, q)' = Declared(c, q)
  BY <1>4 DEF Declared
<1>7. Saves(c)'
  BY <1>1, <1>4, <1>5, <1>6 DEF Client, Saves
<1>8. Placed(c)'
  <2>1. req[c].t # 0
    BY <1>1 DEF Client, Placed
  <2> QED BY <1>4, <2>1 DEF Placed, Reading
<1> QED BY <1>4, <1>7, <1>8 DEF Client, Took, Delivers, At

LEMMA PutSnapshotKeeps ==
    ASSUME IInv, NEW c \in Clients, PutSnapshot(c)
    PROVE  IInv'
<1> DEFINE src == req[c].src
           taken == [k \in DOMAIN src |-> Stamp(src[k].file)]
           node == [ws |-> req[c].w.id, src |-> src, taken |-> taken]
           n == Len(snaps) + 1
<1>1. /\ UNCHANGED <<worksets, ids, links, live, data, clock, fresh, spoilt, requests, edits, faults>>
      /\ TypeOK /\ Apart /\ Keeps /\ Client(c) /\ Placed(c) /\ req[c] \in Request /\ req \in [Clients -> Request]
      /\ snaps' = Append(snaps, node) /\ req[c].pc = "take" /\ req[c].left = {}
  BY Parts DEF PutSnapshot, IInv, Client, TypeOK, tableVars, fileVars, At
<1>2. src \in Seq(Source) /\ DOMAIN src = 1..Len(src) /\ Len(src) \in Nat /\ snaps \in Seq(Snapshot)
  <2>1. src \in Seq(Source)
    BY <1>1 DEF Request
  <2> HIDE DEF src
  <2> QED BY <1>1, <2>1 DEF TypeOK
<1>3. node \in Snapshot
  <2>1. req[c].w.id \in 1..ids
    <3>1. req[c].w.id # 0 /\ ids \in Nat
      BY <1>1 DEF Placed, Reading, TypeOK
    <3>2. req[c].w \in Row
      BY <1>1 DEF Request
    <3> QED BY <3>1, <3>2 DEF Row
  <2>2. \A k \in DOMAIN src : Stamp(src[k].file) \in 0..clock
    <3> SUFFICES ASSUME NEW k \in DOMAIN src PROVE Stamp(src[k].file) \in 0..clock
      OBVIOUS
    <3>1. src[k].file \in {Empty} \union 1..Len(data) /\ clock \in Nat
      BY <1>1, Parts DEF Source, TypeOK
    <3> QED BY <1>1, <3>1, Stamps
  <2>3. taken \in Seq(0..clock)
    <3>1. taken \in [1..Len(src) -> 0..clock]
      BY <1>2, <2>2
    <3> DEFINE S == 0..clock
               m == Len(src)
    <3>2. taken \in [1..m -> S] /\ m \in Nat
      BY <1>2, <3>1
    <3> HIDE DEF taken, m, S
    <3>3. taken \in Seq(S)
      BY <3>2
    <3> QED BY <3>3 DEF S
  <2> HIDE DEF taken, src
  <2> QED BY <1>2, <2>1, <2>3 DEF Snapshot
<1>4. /\ snaps' \in Seq(Snapshot) /\ Len(snaps') = n /\ Len(snaps) \in Nat /\ DOMAIN snaps' = 1..n
      /\ DOMAIN snaps = 1..Len(snaps) /\ snaps'[n] = node /\ \A s \in DOMAIN snaps : snaps'[s] = snaps[s]
  <2> HIDE DEF node
  <2> QED BY <1>1, <1>2, <1>3
<1>5. World({})
  BY <1>1, <1>4, Parts DEF World
<1>6. Request \subseteq Request' /\ Snapshot \subseteq Snapshot'
  <2>1. Grown
    BY <1>1, <1>4, Parts DEF Grown, TypeOK
  <2> QED BY <1>1, <1>4, <2>1, Parts, TypesGrow
<1>7. /\ node.src = src /\ node.taken = taken /\ DOMAIN taken = DOMAIN src
      /\ \A k \in DOMAIN src : taken[k] = Stamp(src[k].file)
  OBVIOUS
<1> HIDE DEF node, taken
<1>8. ASSUME req[c].for = "safety"
      PROVE  \E x \in Request' : req' = [req EXCEPT ![c] = x] /\ x.src = <<>> /\ Client(c)'
  <2> DEFINE K(q) == [[q EXCEPT !.pc = "check", !.for = "none", !.cover = {}, !.left = {}, !.src = <<>>]
                         EXCEPT !.safe = n]
             r == K(req[c])
  <2>1. req' = [req EXCEPT ![c] = r] /\ req'[c] = r /\ lock' = lock
    BY <1>1, <1>8 DEF PutSnapshot, Over, Set
  <2>2. \A q \in Request : /\ K(q) \in Request' /\ K(q).pc = "check" /\ K(q).kind = q.kind /\ K(q).w = q.w
                           /\ K(q).t = q.t /\ K(q).cover = {} /\ K(q).left = {} /\ K(q).src = <<>>
                           /\ K(q).for = "none" /\ K(q).k = q.k /\ K(q).over = q.over /\ K(q).said = q.said
                           /\ K(q).safe = n /\ K(q).touched = q.touched
    <3> SUFFICES ASSUME NEW q \in Request
                 PROVE  /\ K(q) \in Request' /\ K(q).pc = "check" /\ K(q).kind = q.kind /\ K(q).w = q.w
                        /\ K(q).t = q.t /\ K(q).cover = {} /\ K(q).left = {} /\ K(q).src = <<>>
                        /\ K(q).for = "none" /\ K(q).k = q.k /\ K(q).over = q.over /\ K(q).said = q.said
                        /\ K(q).safe = n /\ K(q).touched = q.touched
      OBVIOUS
    <3> DEFINE o == [q EXCEPT !.pc = "check", !.for = "none", !.cover = {}, !.left = {}, !.src = <<>>]
    <3>1. <<>> \in Seq(Source) /\ n \in 0..Len(snaps')
      BY <1>4
    <3>2. /\ o \in Request /\ o.pc = "check" /\ o.kind = q.kind /\ o.w = q.w /\ o.t = q.t
          /\ o.cover = {} /\ o.left = {} /\ o.src = <<>> /\ o.for = "none" /\ o.k = q.k /\ o.over = q.over
          /\ o.said = q.said /\ o.touched = q.touched
      BY <3>1 DEF Request
    <3>3. K(q) = [o EXCEPT !.safe = n]
      OBVIOUS
    <3>4. o \in Request'
      BY <1>6, <3>2
    <3>5. ASSUME NEW x \in Request', NEW m \in 0..Len(snaps')
          PROVE  /\ [x EXCEPT !.safe = m] \in Request'
                 /\ LET y == [x EXCEPT !.safe = m] IN
                    /\ y.pc = x.pc /\ y.kind = x.kind /\ y.w = x.w /\ y.t = x.t /\ y.cover = x.cover
                    /\ y.left = x.left /\ y.src = x.src /\ y.for = x.for /\ y.k = x.k /\ y.over = x.over
                    /\ y.said = x.said /\ y.safe = m /\ y.touched = x.touched
      BY DEF Request
    <3> HIDE DEF o, K, n
    <3> QED BY <3>1, <3>2, <3>3, <3>4, <3>5
  <2> HIDE DEF K
  <2>3. /\ r \in Request' /\ r.pc = "check" /\ r.kind = "restore" /\ r.w = req[c].w /\ r.w.id # 0 /\ r.t # 0
        /\ r.cover = {} /\ r.left = {} /\ r.src = <<>> /\ r.for = "none" /\ r.k = 1
        /\ r.over = {} /\ r.said = req[c].said /\ r.safe = n /\ r.touched = req[c].touched
        /\ req[c].kind = "restore"
    BY <1>1, <1>8, <2>2 DEF Placed, Reading
  <2> HIDE DEF r
  <2>4. Placed(c)'
    BY <2>1, <2>3 DEF Placed, Reading
  <2>5. ASSUME NEW p \in Path, Declared(c, p), Untouched(c, p), live[p] > 0
        PROVE  p \in req[c].said \/ \E k \in DOMAIN src : src[k].path = p /\ taken[k] = data[live[p]]
    <3>1. PICK i \in DOMAIN req[c].w.paths : req[c].w.paths[i] = p
      BY <2>5 DEF Declared
    <3>2. CASE p \in req[c].said
      BY <3>2
    <3>3. CASE i \in req[c].cover
      <4>1. PICK k \in DOMAIN src : src[k].path = p
        BY <1>1, <2>3, <3>1, <3>3 DEF Client, Took, At
      <4>2. AsIs(src[k].file, p)
        BY <1>1, <2>3, <2>5, <4>1 DEF Client, Took, At
      <4>3. taken[k] = data[live[p]]
        BY <1>7, <2>5, <4>1, <4>2 DEF AsIs, Stamp
      <4> QED BY <4>1, <4>3
    <3>4. i \in req[c].cover \/ p \in req[c].said
      BY <1>1, <1>8, <3>1 DEF Client, Saves
    <3> QED BY <3>2, <3>3, <3>4
  <2>6. \A p \in Path : Declared(c, p)' /\ Untouched(c, p)' /\ live'[p] > 0 => Safe(c, p, data[live[p]])'
    <3> SUFFICES ASSUME NEW p \in Path, Declared(c, p)', Untouched(c, p)', live'[p] > 0
                 PROVE  Safe(c, p, data[live[p]])'
      OBVIOUS
    <3>1. Declared(c, p) /\ Untouched(c, p) /\ live[p] > 0 /\ live' = live /\ data' = data
      BY <1>1, <2>1, <2>3 DEF Declared, Untouched
    <3>2. CASE p \in req[c].said
      BY <2>1, <2>3, <3>2 DEF Safe
    <3>3. CASE \E k \in DOMAIN src : src[k].path = p /\ taken[k] = data[live[p]]
      <4>1. req'[c].safe = n /\ snaps'[n].src = src /\ snaps'[n].taken = taken /\ n # 0
        BY <1>4, <1>7, <2>1, <2>3
      <4> HIDE DEF n, src
      <4> QED BY <3>1, <3>3, <4>1 DEF Safe, Holds
    <3> QED BY <2>5, <3>1, <3>2, <3>3
  <2>7. Client(c)'
    BY <2>1, <2>3, <2>4, <2>6, Guarded
  <2> QED BY <2>1, <2>3, <2>7, <1>1
<1>9. ASSUME req[c].for # "safety"
      PROVE  \E x \in Request' : req' = [req EXCEPT ![c] = x] /\ x.src = <<>> /\ Client(c)'
  <2>1. Answers(c, "ok", req[c])
    BY <1>1, <1>9 DEF PutSnapshot
  <2>2. CASE req[c].kind = "restore"
    <3>1. req' = [req EXCEPT ![c] = Answer(req[c])]
      BY <2>1, <2>2 DEF Answers, Set, Answer
    <3>2. req'[c] \in Request' /\ req'[c].src = <<>> /\ Client(c)'
      BY <1>5, <1>6, <2>2, <3>1, Answered
    <3> QED BY <2>1, <1>1, <3>1, <3>2 DEF Answers
  <2>3. CASE req[c].kind # "restore"
    <3>1. req' = [req EXCEPT ![c] = NoRequest] /\ req'[c] = NoRequest
      BY <1>1, <2>1, <2>3 DEF Answers, Set
    <3>2. NoRequest \in Request' /\ NoRequest.src = <<>> /\ Client(c)'
      BY <1>1, <1>6, <3>1, NoneAsked DEF NoRequest
    <3> QED BY <2>1, <3>1, <3>2 DEF Answers
  <2> QED BY <2>2, <2>3
<1>10. PICK r \in Request' : req' = [req EXCEPT ![c] = r] /\ r.src = <<>> /\ Client(c)'
  BY <1>8, <1>9
<1>11. req'[c] = r /\ \A d \in Clients \ {c} : req'[d] = req[d]
  BY <1>1, <1>10
<1>12. \A d \in Clients : Client(d)'
  <2> SUFFICES ASSUME NEW d \in Clients \ {c} PROVE Client(d)'
    BY <1>10
  <2>1. Like(d, {})
    BY <1>11 DEF Like
  <2> QED BY <1>5, <2>1, ClientKept
<1>13. Apart'
  <2>1. \A d \in Clients : \A k \in DOMAIN req'[d].src : \A p \in Path :
           live[p] > 0 /\ req'[d].src[k].file = live[p] => links /\ req'[d].src[k].path = p
    BY <1>1, <1>10, <1>11 DEF Apart
  <2>2. \A s \in DOMAIN snaps' : \A k \in DOMAIN snaps'[s].src : \A p \in Path :
           live[p] > 0 /\ snaps'[s].src[k].file = live[p]
               => links /\ snaps'[s].src[k].path = p /\ s > fresh[p]
    <3> SUFFICES ASSUME NEW s \in DOMAIN snaps', NEW k \in DOMAIN snaps'[s].src, NEW p \in Path,
                        live[p] > 0, snaps'[s].src[k].file = live[p]
                 PROVE  links /\ snaps'[s].src[k].path = p /\ s > fresh[p]
      OBVIOUS
    <3>1. CASE s \in DOMAIN snaps
      BY <1>1, <1>4, <3>1 DEF Apart
    <3>2. CASE s = n
      <4>1. snaps'[s].src = src
        BY <1>4, <1>7, <3>2
      <4>2. links /\ src[k].path = p
        BY <1>1, <4>1 DEF Apart
      <4>3. fresh[p] \in 0..Len(snaps)
        BY <1>1 DEF TypeOK
      <4> QED BY <1>4, <3>2, <4>1, <4>2, <4>3
    <3> QED BY <1>4, <3>1, <3>2
  <2> QED BY <1>1, <2>1, <2>2 DEF Apart
<1>14. Keeps'
  <2>1. Stamp(0)' = Stamp(0) /\ data' = data /\ spoilt' = spoilt
    BY <1>1 DEF Stamp
  <2> SUFFICES ASSUME NEW s \in DOMAIN snaps'
               PROVE  /\ DOMAIN snaps'[s].taken = DOMAIN snaps'[s].src
                      /\ \A k \in DOMAIN snaps'[s].src : \/ Stamp(snaps'[s].src[k].file) = snaps'[s].taken[k]
                                                         \/ <<s, snaps'[s].src[k].path>> \in spoilt
    BY <2>1 DEF Keeps, SnapshotsKeepTheirContent, Stamp
  <2>2. CASE s \in DOMAIN snaps
    BY <1>1, <1>4, <2>2 DEF Keeps, SnapshotsKeepTheirContent
  <2>3. CASE s = n
    <3>1. snaps'[s].src = src /\ snaps'[s].taken = taken
      BY <1>4, <1>7, <2>3
    <3> QED BY <1>7, <3>1
  <2>4. s \in DOMAIN snaps \/ s = n
    BY <1>4
  <2> QED BY <2>2, <2>3, <2>4
<1>15. TypeOK'
  <2>1. Row' = Row /\ Tables'
    <3>1. \A i \in DOMAIN lock' : i \in 1..ids /\ lock'[i] \in Clients
      BY <1>1 DEF TypeOK, PutSnapshot, Answers
    <3> QED BY <1>1, <3>1 DEF Row, Tables, TypeOK
  <2>2. req' \in [Clients -> Request'] /\ snaps' \in Seq(Snapshot')
    BY <1>1, <1>4, <1>6, <1>10
  <2>3. /\ live' \in [Path -> {Missing, Link, Empty} \union 1..Len(data')]
        /\ fresh' \in [Path -> 0..Len(snaps')] /\ spoilt' \subseteq Nat \X Path
        /\ data' \in Seq(1..clock') /\ clock' \in Nat /\ clock' >= clock
    BY <1>1, <1>4 DEF TypeOK
  <2>4. \A d \in Clients : Placed(d)'
    BY <1>12 DEF Client
  <2> QED BY <1>1, <1>5, <2>1, <2>2, <2>3, <2>4, TypesAfter
<1> QED BY <1>12, <1>13, <1>14, <1>15 DEF IInv

\* A path gets a file that is nobody's yet, or none.
LEMMA Replaced ==
    ASSUME TypeOK, Apart, Keeps, NEW p \in Path, NEW f \in {Missing, Link, Empty, Len(data) + 1}, NEW v,
           UNCHANGED <<snaps, links, spoilt>>, clock' \in Nat, clock' >= clock, f > 0 => v \in 1..clock',
           live' = [live EXCEPT ![p] = f], data' = IF f > 0 THEN Append(data, v) ELSE data,
           fresh' = fresh \/ fresh' = [fresh EXCEPT ![p] = Len(snaps)],
           \A d \in Clients : req'[d].src = req[d].src
    PROVE  /\ Apart' /\ Keeps' /\ World({p}) /\ data' \in Seq(1..clock')
           /\ live' \in [Path -> {Missing, Link, Empty} \union 1..Len(data')]
           /\ fresh' \in [Path -> 0..Len(snaps')] /\ spoilt' \subseteq Nat \X Path
           /\ (\A g \in 1..Len(data) : data'[g] = data[g]) /\ (f > 0 => data'[f] = v)
<1>1. /\ Len(data) \in Nat /\ Len(snaps) \in Nat /\ data \in Seq(1..clock') /\ live \in [Path -> {Missing, Link, Empty} \union 1..Len(data)]
      /\ fresh \in [Path -> 0..Len(snaps)] /\ spoilt \subseteq Nat \X Path
  <2>1. data \in Seq(1..clock) /\ clock \in Nat
    BY DEF TypeOK
  <2>2. \A k \in 1..Len(data) : data[k] \in 1..clock'
    BY <2>1
  <2>3. data \in Seq(1..clock')
    <3> DEFINE S == 1..clock'
    <3>1. \A k \in 1..Len(data) : data[k] \in S
      BY <2>2
    <3>2. data \in [1..Len(data) -> S] /\ Len(data) \in Nat
      BY <2>1, <3>1
    <3> HIDE DEF S
    <3>3. data \in Seq(S)
      BY <3>2
    <3> QED BY <3>3 DEF S
  <2> QED BY <2>3, Parts DEF TypeOK
<1>2. /\ data' \in Seq(1..clock') /\ Len(data') \in Nat /\ Len(data') >= Len(data)
      /\ (f > 0 => Len(data') = Len(data) + 1 /\ data'[Len(data) + 1] = v)
      /\ \A g \in 1..Len(data) : data'[g] = data[g]
  <2>1. CASE f > 0
    <3> DEFINE S == 1..clock'
    <3>1. data \in Seq(S) /\ v \in S /\ data' = Append(data, v)
      BY <1>1, <2>1
    <3> HIDE DEF S
    <3>2. data' \in Seq(S) /\ Len(data') = Len(data) + 1
      BY <3>1
    <3>3. data'[Len(data) + 1] = v /\ \A g \in 1..Len(data) : data'[g] = data[g]
      BY <3>1
    <3> QED BY <1>1, <3>2, <3>3 DEF S
  <2>2. CASE ~(f > 0)
    BY <1>1, <2>2
  <2> QED BY <2>1, <2>2
<1>3. f > 0 => f = Len(data) + 1
  BY DEF Missing, Link, Empty
<1>4. /\ live'[p] = f /\ \A q \in Path \ {p} : live'[q] = live[q] /\ fresh'[q] = fresh[q]
  BY <1>1
<1>5. \A q \in Path : live[q] > 0 => live[q] \in 1..Len(data)
  BY <1>1 DEF Missing, Link, Empty
<1>6. /\ \A s \in DOMAIN snaps : \A k \in DOMAIN snaps[s].src : snaps[s].src[k].file \in {Empty} \union 1..Len(data)
      /\ \A d \in Clients : \A k \in DOMAIN req[d].src : req[d].src[k].file \in {Empty} \union 1..Len(data)
  BY Parts DEF Source
<1>7. World({p})
  BY <1>1, <1>2, <1>4 DEF World
<1>8. Apart'
  <2>1. ASSUME NEW q \in Path, NEW r \in Path, live'[q] > 0, live'[q] = live'[r] PROVE q = r
    BY <1>1, <1>3, <1>4, <1>5, <2>1 DEF Apart
  <2>2. ASSUME NEW s \in DOMAIN snaps, NEW k \in DOMAIN snaps[s].src, NEW q \in Path,
               live'[q] > 0, snaps[s].src[k].file = live'[q]
        PROVE  links /\ snaps[s].src[k].path = q /\ s > fresh'[q]
    <3>1. q # p
      BY <1>1, <1>3, <1>4, <1>6, <2>2 DEF Empty
    <3> QED BY <1>4, <2>2, <3>1 DEF Apart
  <2>3. ASSUME NEW d \in Clients, NEW k \in DOMAIN req[d].src, NEW q \in Path,
               live'[q] > 0, req[d].src[k].file = live'[q]
        PROVE  links /\ req[d].src[k].path = q
    <3>1. q # p
      BY <1>1, <1>3, <1>4, <1>6, <2>3, SMTT(40) DEF Empty
    <3> QED BY <1>4, <2>3, <3>1 DEF Apart
  <2> QED BY <2>1, <2>2, <2>3 DEF Apart
<1>9. Keeps'
  <2>1. \A g \in {Empty} \union 1..Len(data) : (IF g > 0 THEN data'[g] ELSE 0) = (IF g > 0 THEN data[g] ELSE 0)
    BY <1>2 DEF Empty
  <2> QED BY <1>6, <2>1 DEF Keeps, SnapshotsKeepTheirContent, Stamp
<1>10. live' \in [Path -> {Missing, Link, Empty} \union 1..Len(data')]
  <2>1. f \in {Missing, Link, Empty} \union 1..Len(data')
    BY <1>1, <1>2, <1>3 DEF Missing, Link, Empty
  <2>2. \A q \in Path : live[q] \in {Missing, Link, Empty} \union 1..Len(data')
    BY <1>1, <1>2
  <2> QED BY <1>1, <2>1, <2>2
<1> QED BY <1>1, <1>2, <1>3, <1>7, <1>8, <1>9, <1>10

\* What a write is to a request that did not make it.
LEMMA TouchIs ==
    ASSUME TypeOK, NEW p \in Path, NEW d \in Clients, req'[d] = Touch(p, req)[d]
    PROVE  Like(d, {p}) /\ req'[d] \in Request
<1>1. req[d] \in Request
  BY Parts
<1>2. req'[d] = IF req[d].kind = "restore" /\ req[d].pc \notin {"lock", "ok"}
                THEN [req[d] EXCEPT !.touched = @ \union {p}] ELSE req[d]
  BY DEF Touch
<1>3. ASSUME NEW q \in Request
      PROVE  LET x == [q EXCEPT !.touched = @ \union {p}] IN
             /\ x \in Request /\ x.pc = q.pc /\ x.kind = q.kind /\ x.name = q.name /\ x.w = q.w /\ x.t = q.t
             /\ x.cover = q.cover /\ x.left = q.left /\ x.src = q.src /\ x.for = q.for /\ x.k = q.k
             /\ x.safe = q.safe /\ x.said = q.said /\ x.over = q.over /\ x.touched = q.touched \union {p}
  BY DEF Request
<1> DEFINE T(q) == [q EXCEPT !.touched = @ \union {p}]
<1>4. CASE req[d].kind = "restore" /\ req[d].pc \notin {"lock", "ok"}
  <2>1. req'[d] = T(req[d])
    BY <1>2, <1>4
  <2>2. \A q \in Request :
             /\ T(q) \in Request /\ T(q).pc = q.pc /\ T(q).kind = q.kind /\ T(q).name = q.name /\ T(q).w = q.w
             /\ T(q).t = q.t /\ T(q).cover = q.cover /\ T(q).left = q.left /\ T(q).src = q.src
             /\ T(q).for = q.for /\ T(q).k = q.k /\ T(q).safe = q.safe /\ T(q).said = q.said
             /\ T(q).over = q.over /\ T(q).touched = q.touched \union {p}
    BY <1>3
  <2> HIDE DEF T
  <2> QED BY <1>1, <1>4, <2>1, <2>2 DEF Like
<1>5. CASE ~(req[d].kind = "restore" /\ req[d].pc \notin {"lock", "ok"})
  BY <1>1, <1>2, <1>5 DEF Like
<1> QED BY <1>4, <1>5

\* An agent's write keeps what its file and its types keep.
LEMMA Written ==
    ASSUME IInv, NEW p \in Path, Edit(p), World({p}), Apart', Keeps',
           data' \in Seq(1..clock'), clock' \in Nat, clock' >= clock,
           live' \in [Path -> {Missing, Link, Empty} \union 1..Len(data')],
           fresh' \in [Path -> 0..Len(snaps')], spoilt' \subseteq Nat \X Path
    PROVE  IInv'
<1>1. /\ TypeOK /\ UNCHANGED <<worksets, ids, lock, snaps, links, requests, faults>>
      /\ edits' = edits + 1 /\ edits < MaxEdits /\ req' = Touch(p, req)
  BY DEF IInv, Edit, tableVars
<1>2. \A d \in Clients : Like(d, {p}) /\ req'[d] \in Request
  BY <1>1, TouchIs
<1>3. \A d \in Clients : Client(d)'
  BY <1>2, ClientKept
<1>4. Request \subseteq Request' /\ Snapshot \subseteq Snapshot'
  <2>1. Grown /\ Len(snaps') \in Nat /\ Len(data') \in Nat
    BY <1>1, Parts DEF Grown, TypeOK, World
  <2> QED BY <1>1, <2>1, TypesGrow
<1>5. req' \in [Clients -> Request']
  BY <1>1, <1>2, <1>4 DEF Touch
<1>6. Row' = Row /\ Tables'
  BY <1>1, WorkingSetAssumption DEF Row, Tables, TypeOK
<1>7. snaps' \in Seq(Snapshot')
  BY <1>1, <1>4, Parts DEF TypeOK
<1>8. TypeOK'
  <2>1. \A d \in Clients : Placed(d)'
    BY <1>3 DEF Client
  <2> QED BY <1>1, <1>5, <1>6, <1>7, <2>1, TypesAfter
<1> QED BY <1>3, <1>8 DEF IInv

LEMMA WriteNewKeeps ==
    ASSUME IInv, NEW p \in Path, WriteNew(p)
    PROVE  IInv'
<1>1. TypeOK /\ Apart /\ Keeps
  BY DEF IInv
<1>2. /\ Edit(p) /\ clock' = clock + 1 /\ data' = Append(data, clock + 1)
      /\ live' = [live EXCEPT ![p] = Len(data) + 1] /\ fresh' = [fresh EXCEPT ![p] = Len(snaps)]
      /\ UNCHANGED <<snaps, links, spoilt>>
  BY DEF WriteNew, Edit
<1>3. \A d \in Clients : req'[d].src = req[d].src
  BY <1>1, <1>2, TouchIs DEF Edit, Like
<1>4. clock' \in Nat /\ clock' >= clock /\ clock + 1 \in 1..clock' /\ Len(data) + 1 > 0
  BY <1>1, <1>2, Parts DEF TypeOK
<1>5. /\ Apart' /\ Keeps' /\ World({p}) /\ data' \in Seq(1..clock')
      /\ live' \in [Path -> {Missing, Link, Empty} \union 1..Len(data')]
      /\ fresh' \in [Path -> 0..Len(snaps')] /\ spoilt' \subseteq Nat \X Path
  BY <1>1, <1>2, <1>3, <1>4, Replaced
<1> QED BY <1>2, <1>4, <1>5, Written

LEMMA TakeAwayKeeps ==
    ASSUME IInv, NEW p \in Path, TakeAway(p)
    PROVE  IInv'
<1>1. TypeOK /\ Apart /\ Keeps /\ clock \in Nat
  BY DEF IInv, TypeOK
<1>2. /\ Edit(p) /\ UNCHANGED <<data, clock, fresh, spoilt, snaps, links>>
  BY DEF TakeAway, Edit
<1>3. PICK what \in {Empty, Missing, Link} : live' = [live EXCEPT ![p] = what]
  BY DEF TakeAway
<1>4. \A d \in Clients : req'[d].src = req[d].src
  BY <1>1, <1>2, TouchIs DEF Edit, Like
<1>5. /\ ~(what > 0) /\ clock' \in Nat /\ clock' >= clock /\ (what > 0 => 0 \in 1..clock')
      /\ data' = IF what > 0 THEN Append(data, 0) ELSE data
  <2>1. ~(what > 0)
    BY DEF Empty, Missing, Link
  <2> QED BY <1>1, <1>2, <2>1
<1>6. /\ Apart' /\ Keeps' /\ World({p}) /\ data' \in Seq(1..clock')
      /\ live' \in [Path -> {Missing, Link, Empty} \union 1..Len(data')]
      /\ fresh' \in [Path -> 0..Len(snaps')] /\ spoilt' \subseteq Nat \X Path
  BY <1>1, <1>2, <1>3, <1>4, <1>5, Replaced
<1> QED BY <1>1, <1>2, <1>6, Written

\* A write in place reaches the snapshots that share the file: those of the
\* path that were taken since it is there.
LEMMA WriteInPlaceKeeps ==
    ASSUME IInv, NEW p \in Path, WriteInPlace(p)
    PROVE  IInv'
<1>1. TypeOK /\ Apart /\ Keeps
  BY DEF IInv
<1>2. /\ Edit(p) /\ live[p] > 0 /\ clock' = clock + 1 /\ data' = [data EXCEPT ![live[p]] = clock + 1]
      /\ spoilt' = (IF links THEN spoilt \union {<<s, p>> : s \in (fresh[p] + 1)..Len(snaps)} ELSE spoilt)
      /\ UNCHANGED <<live, fresh, snaps, links>>
  BY DEF WriteInPlace, Edit
<1>3. \A d \in Clients : req'[d].src = req[d].src
  BY <1>1, <1>2, TouchIs DEF Edit, Like
<1>4. /\ clock \in Nat /\ clock' \in Nat /\ clock' >= clock /\ clock + 1 \in 1..clock' /\ live[p] \in 1..Len(data)
      /\ Len(data) \in Nat /\ Len(snaps) \in Nat /\ fresh[p] \in 0..Len(snaps)
  <2>1. clock \in Nat /\ fresh[p] \in 0..Len(snaps)
    BY <1>1 DEF TypeOK
  <2>2. live[p] \in 1..Len(data) /\ Len(data) \in Nat /\ Len(snaps) \in Nat
    BY <1>1, <1>2, Parts DEF Empty, Missing, Link
  <2> QED BY <1>2, <2>1, <2>2
<1>5. /\ data' \in Seq(1..clock') /\ Len(data') = Len(data) /\ data'[live[p]] = clock + 1
      /\ \A f \in 1..Len(data) \ {live[p]} : data'[f] = data[f]
  <2>1. data \in Seq(1..clock)
    BY <1>1 DEF TypeOK
  <2>2. \A k \in 1..Len(data) : data[k] \in 1..clock'
    BY <1>4, <2>1
  <2> DEFINE S == 1..clock'
             m == Len(data)
             v == clock + 1
  <2>3. data \in [1..m -> S] /\ m \in Nat /\ v \in S
    BY <1>4, <2>1, <2>2
  <2>4. data' = [data EXCEPT ![live[p]] = v] /\ live[p] \in 1..m
    BY <1>2, <1>4
  <2>5. Len(data) = m
    OBVIOUS
  <2> HIDE DEF S, m, v
  <2>6. data' \in [1..m -> S]
    BY <2>3, <2>4
  <2>7. data' \in Seq(S) /\ Len(data') = m
    BY <2>3, <2>6
  <2> QED BY <2>3, <2>4, <2>5, <2>7 DEF S, v
<1>6. World({p})
  BY <1>2, <1>4, <1>5 DEF World
<1>7. Apart'
  BY <1>1, <1>2, <1>3 DEF Apart
<1>8. \A s \in DOMAIN snaps : \A k \in DOMAIN snaps[s].src : snaps[s].src[k].file \in {Empty} \union 1..Len(data)
  BY <1>1, Parts DEF Source
<1>9. Keeps'
  <2> SUFFICES ASSUME NEW s \in DOMAIN snaps, NEW k \in DOMAIN snaps[s].src
               PROVE  \/ Stamp(snaps[s].src[k].file)' = snaps[s].taken[k]
                      \/ <<s, snaps[s].src[k].path>> \in spoilt'
    BY <1>1, <1>2 DEF Keeps, SnapshotsKeepTheirContent, Stamp
  <2>1. CASE snaps[s].src[k].file = live[p]
    <3>1. links /\ snaps[s].src[k].path = p /\ s > fresh[p] /\ s \in 1..Len(snaps)
      BY <1>1, <1>2, <2>1, Parts DEF Apart
    <3>2. s \in (fresh[p] + 1)..Len(snaps)
      BY <1>4, <3>1
    <3>3. <<s, p>> \in spoilt'
      BY <1>2, <3>1, <3>2
    <3> QED BY <3>1, <3>3
  <2>2. CASE snaps[s].src[k].file # live[p]
    <3>1. Stamp(snaps[s].src[k].file)' = Stamp(snaps[s].src[k].file)
      BY <1>2, <1>5, <1>8, <2>2 DEF Stamp, Empty
    <3> QED BY <1>1, <1>2, <3>1 DEF Keeps, SnapshotsKeepTheirContent
  <2> QED BY <2>1, <2>2
<1>10. spoilt' \subseteq Nat \X Path
  <2>1. spoilt \subseteq Nat \X Path /\ (fresh[p] + 1)..Len(snaps) \subseteq Nat
    BY <1>1, <1>4 DEF TypeOK
  <2> QED BY <1>2, <2>1
<1>11. /\ live' \in [Path -> {Missing, Link, Empty} \union 1..Len(data')]
       /\ fresh' \in [Path -> 0..Len(snaps')]
  BY <1>1, <1>2, <1>5 DEF TypeOK
<1> QED BY <1>2, <1>4, <1>5, <1>6, <1>7, <1>9, <1>10, <1>11, Written

LEMMA Progress ==
    ASSUME NEW r \in Request, NEW p, NEW lost \in SUBSET (Path \X Nat)
    PROVE  [r EXCEPT !.k = @ + 1, !.touched = @ \ {p}, !.over = @ \union lost] \in Request
<1> DEFINE x == [r EXCEPT !.k = @ + 1, !.touched = @ \ {p}, !.over = @ \union lost]
<1>3. r.k \in Nat /\ r.touched \in SUBSET Path
  BY DEF Request
<1>1. r.k + 1 \in Nat /\ r.touched \ {p} \in SUBSET Path
  BY <1>3
<1>2. r.over \union lost \in SUBSET (Path \X Nat)
  BY DEF Request
<1> QED BY <1>1, <1>2 DEF Request

\* A restore writes over a path: what was there is saved or named, and what it
\* puts there is what the snapshot holds.
LEMMA SwapPathKeeps ==
    ASSUME IInv, NEW c \in Clients, SwapPath(c)
    PROVE  IInv'
<1> DEFINE k == req[c].k
           s == Sources(c)[k]
           p == s.path
           f == IF s.file > 0 THEN Len(data) + 1 ELSE s.file
           again == \E j \in 1..(k - 1) : Sources(c)[j].path = p
           lost == IF live[p] > 0 /\ p \notin req[c].touched /\ ~again
                   THEN {<<p, data[live[p]]>>} ELSE {}
           mine == [req[c] EXCEPT !.k = @ + 1, !.touched = @ \ {p}, !.over = @ \union lost]
<1>1. /\ UNCHANGED <<worksets, ids, lock, snaps, links, clock, spoilt, requests, edits, faults>>
      /\ TypeOK /\ Apart /\ Keeps /\ Client(c) /\ Placed(c) /\ req[c] \in Request /\ req \in [Clients -> Request]
      /\ req[c].pc = "swap" /\ k \in DOMAIN Sources(c) /\ req[c].kind = "restore"
  BY Parts DEF SwapPath, Restoring, IInv, Client, TypeOK, tableVars, At, Placed
<1>2. /\ live' = [live EXCEPT ![p] = f] /\ fresh' = [fresh EXCEPT ![p] = Len(snaps)]
      /\ data' = IF f > Len(data) THEN Append(data, Stamp(s.file)) ELSE data
      /\ req' = [Touch(p, req) EXCEPT ![c] = mine]
  BY DEF SwapPath, Swap
<1>3. /\ req[c].t \in DOMAIN snaps /\ Sources(c) \in Seq(Source) /\ Len(Sources(c)) \in Nat
      /\ DOMAIN Sources(c) = 1..Len(Sources(c)) /\ Sources(c)' = Sources(c)
      /\ \A j \in DOMAIN Sources(c) : Sources(c)[j] \in Source
  <2>1. /\ req[c].t \in DOMAIN snaps /\ Sources(c) \in Seq(Source) /\ Len(Sources(c)) \in Nat
        /\ DOMAIN Sources(c) = 1..Len(Sources(c))
    BY <1>1, Target
  <2>2. mine.t = req[c].t
    OBVIOUS
  <2>3. req'[c] = mine
    BY <1>1, <1>2 DEF Touch
  <2> HIDE DEF mine
  <2> QED BY <1>1, <2>1, <2>2, <2>3 DEF Sources
<1>4. /\ s \in Source /\ p \in Path /\ s.file \in {Empty} \union 1..Len(data) /\ Len(data) \in Nat /\ k \in Nat
  BY <1>1, <1>3, Parts DEF Source
<1>5. /\ f \in {Empty, Len(data) + 1} /\ (f > 0 <=> s.file > 0) /\ (f > Len(data) <=> f > 0)
      /\ (f > 0 => Stamp(s.file) \in 1..clock /\ Stamp(s.file) = data[s.file])
      /\ (~(f > 0) => Stamp(s.file) = 0)
  <2>1. s.file > 0 => s.file \in 1..Len(data)
    BY <1>4 DEF Empty
  <2>2. f \in {Empty, Len(data) + 1} /\ (f > 0 <=> s.file > 0) /\ (f > Len(data) <=> f > 0)
    BY <1>4 DEF Empty
  <2> QED BY <1>1, <2>1, <2>2, Stamps DEF Stamp
<1>6. \A r \in Request : LET x == [r EXCEPT !.k = @ + 1, !.touched = @ \ {p}, !.over = @ \union lost] IN
         /\ x.pc = r.pc /\ x.kind = r.kind /\ x.name = r.name /\ x.w = r.w /\ x.t = r.t /\ x.cover = r.cover
         /\ x.left = r.left /\ x.src = r.src /\ x.for = r.for /\ x.safe = r.safe /\ x.said = r.said
         /\ x.k = r.k + 1 /\ x.touched = r.touched \ {p} /\ x.over = r.over \union lost
  BY ZenonT(60) DEF Request
<1>7. req'[c] = mine
  BY <1>1, <1>2 DEF Touch
<1>8. /\ req'[c].pc = "swap" /\ req'[c].kind = "restore" /\ req'[c].w = req[c].w /\ req'[c].t = req[c].t
      /\ req'[c].cover = req[c].cover /\ req'[c].left = req[c].left /\ req'[c].src = req[c].src
      /\ req'[c].for = req[c].for /\ req'[c].safe = req[c].safe /\ req'[c].said = req[c].said
      /\ req'[c].k = k + 1 /\ req'[c].touched = req[c].touched \ {p} /\ req'[c].over = req[c].over \union lost
      /\ req'[c].name = req[c].name
  BY <1>1, <1>6, <1>7
<1>9. \A d \in Clients \ {c} : Like(d, {p}) /\ req'[d] \in Request
  <2> SUFFICES ASSUME NEW d \in Clients \ {c} PROVE Like(d, {p}) /\ req'[d] \in Request
    OBVIOUS
  <2>1. req'[d] = Touch(p, req)[d]
    BY <1>2
  <2> QED BY <1>1, <1>4, <2>1, TouchIs
<1> HIDE DEF mine
<1>10. \A d \in Clients : req'[d].src = req[d].src
  BY <1>8, <1>9 DEF Like
<1>11. /\ Apart' /\ Keeps' /\ World({p}) /\ data' \in Seq(1..clock')
       /\ live' \in [Path -> {Missing, Link, Empty} \union 1..Len(data')]
       /\ fresh' \in [Path -> 0..Len(snaps')] /\ spoilt' \subseteq Nat \X Path
       /\ (\A g \in 1..Len(data) : data'[g] = data[g]) /\ (f > 0 => data'[f] = Stamp(s.file))
  <2>1. data' = IF f > 0 THEN Append(data, Stamp(s.file)) ELSE data
    BY <1>2, <1>5
  <2>2. clock' \in Nat /\ clock' >= clock /\ (f > 0 => Stamp(s.file) \in 1..clock')
        /\ f \in {Missing, Link, Empty, Len(data) + 1}
    BY <1>1, <1>5 DEF TypeOK
  <2>3. /\ TypeOK /\ Apart /\ Keeps /\ p \in Path /\ UNCHANGED <<snaps, links, spoilt>>
        /\ live' = [live EXCEPT ![p] = f] /\ fresh' = [fresh EXCEPT ![p] = Len(snaps)]
    BY <1>1, <1>2, <1>4
  <2> HIDE DEF f, s, p
  <2> QED BY <1>10, <2>1, <2>2, <2>3, Replaced
<1>12. live'[p] = f
  BY <1>1, <1>2, <1>4 DEF TypeOK
<1> HIDE DEF f
<1>13. Swapped(c)' = Swapped(c) \union {k} /\ Swapped(c) \subseteq DOMAIN Sources(c)
       /\ Swapped(c) = 1..(k - 1)
  BY <1>1, <1>3, <1>4, <1>8 DEF Swapped
<1>14. Placed(c)'
  BY <1>1, <1>3, <1>4, <1>8 DEF Placed, Reading
<1>15. \A q, v : Safe(c, q, v) => Safe(c, q, v)'
  BY <1>8, <1>11, <1>4, SafeOn
<1>16. \A q : Declared(c, q)' = Declared(c, q)
  BY <1>8 DEF Declared
<1>17. Saves(c)'
  <2>1. req[c].for = "none"
    BY <1>1 DEF Placed
  <2>2. ASSUME NEW q \in Path, Declared(c, q)', Ahead(c, q)'
        PROVE  Safe(c, q, data[live[q]])'
    <3>1. q # p /\ Untouched(c, q) /\ live'[q] > 0
      BY <1>3, <1>8, <1>13, <2>2 DEF Ahead, Untouched
    <3>2. live'[q] = live[q] /\ (live[q] > 0 => data'[live'[q]] = data[live[q]])
      <4>1. {p} \in SUBSET Path /\ q \in Path \ {p}
        BY <1>4, <3>1
      <4> HIDE DEF p
      <4> QED BY <1>1, <1>11, <4>1, StampsStay
    <3>3. Ahead(c, q)
      BY <1>3, <1>13, <2>2, <3>1, <3>2 DEF Ahead
    <3>4. Safe(c, q, data[live[q]])
      BY <1>1, <1>16, <2>2, <3>3 DEF Client, Saves
    <3> QED BY <1>15, <3>1, <3>2, <3>4
  <2>3. \A x \in req[c].over : Safe(c, x[1], x[2])' \/ ~Declared(c, x[1])'
    BY <1>1, <1>15, <1>16 DEF Client, Saves
  <2>4. \A x \in lost : Safe(c, x[1], x[2])' \/ ~Declared(c, x[1])'
    <3> SUFFICES ASSUME NEW x \in lost, Declared(c, x[1])' PROVE Safe(c, x[1], x[2])'
      OBVIOUS
    <3>1. x = <<p, data[live[p]]>> /\ live[p] > 0 /\ p \notin req[c].touched /\ ~again
      OBVIOUS
    <3>2. x[1] = p /\ x[2] = data[live[p]]
      BY <3>1, ZenonT(60)
    <3>3. Ahead(c, p)
      BY <1>13, <3>1 DEF Ahead, Untouched
    <3>4. Declared(c, p)
      BY <1>16, <3>2
    <3>5. Safe(c, p, data[live[p]])
      BY <1>1, <1>4, <3>3, <3>4 DEF Client, Saves
    <3>6. Safe(c, x[1], x[2])
      BY <3>2, <3>5
    <3> QED BY <1>15, <3>6
  <2> HIDE DEF lost
  <2> QED BY <1>8, <2>1, <2>2, <2>3, <2>4 DEF Saves
<1>18. Delivers(c)'
  <2> SUFFICES ASSUME Distinct(req[c].t), NEW j \in Swapped(c) \union {k}, Untouched(c, Sources(c)[j].path)'
               PROVE  AsIs(Sources(c)[j].file, Sources(c)[j].path)'
    BY <1>1, <1>3, <1>8, <1>13 DEF Delivers, Distinct
  <2> DEFINE g == Sources(c)[j].file
             q == Sources(c)[j].path
  <2>1. j \in DOMAIN Sources(c) /\ g \in {Empty} \union 1..Len(data) /\ q \in Path
    BY <1>1, <1>3, <1>13 DEF Source
  <2>2. (IF g > 0 THEN data'[g] ELSE 0) = (IF g > 0 THEN data[g] ELSE 0)
    BY <1>11, <2>1 DEF Empty
  <2>3. CASE j = k
    <3>1. (IF f > 0 THEN data'[f] ELSE 0) = Stamp(s.file) /\ Sources(c)[j] = s
      BY <1>5, <1>11, <2>3
    <3>2. (IF live'[p] > 0 THEN data'[live'[p]] ELSE 0) = Stamp(s.file)
      BY <1>12, <3>1
    <3> QED BY <1>3, <2>2, <3>1, <3>2 DEF AsIs, Stamp
  <2>4. CASE j # k
    <3>1. q # p
      BY <1>1, <1>3, <2>1, <2>4 DEF Distinct, Sources
    <3>2. Untouched(c, q)
      BY <1>3, <1>8, <3>1 DEF Untouched
    <3>3. AsIs(g, q)
      BY <1>1, <2>4, <3>2 DEF Client, Delivers
    <3>4. live'[q] = live[q] /\ (IF live[q] > 0 THEN data'[live[q]] ELSE 0) = Stamp(live[q])
      BY <1>1, <1>4, <1>11, <2>1, <3>1, StampsStay
    <3> QED BY <1>3, <2>2, <3>3, <3>4 DEF AsIs, Stamp
  <2> QED BY <2>3, <2>4
<1>19. \A d \in Clients : Client(d)'
  <2>1. Took(c)'
    BY <1>8 DEF Took, At
  <2>2. \A d \in Clients \ {c} : Client(d)'
    BY <1>4, <1>9, <1>11, ClientKept
  <2> QED BY <1>14, <1>17, <1>18, <2>1, <2>2 DEF Client
<1>20. TypeOK'
  <2>1. Grown /\ Len(snaps') \in Nat /\ Len(data') \in Nat
    BY <1>1, <1>11, Parts DEF Grown, TypeOK, World
  <2>2. Request \subseteq Request' /\ Snapshot \subseteq Snapshot'
    BY <1>1, <2>1, TypesGrow
  <2>3. mine \in Request
    <3>1. lost \in SUBSET (Path \X Nat)
      <4>1. live[p] > 0 => data[live[p]] \in Nat
        <5>1. live[p] > 0 => live[p] \in 1..Len(data)
          BY <1>1, <1>4, Parts DEF Missing, Link, Empty
        <5> QED BY <1>1, <5>1, Stamps
      <4> QED BY <1>4, <4>1
    <3> HIDE DEF lost, p
    <3> QED BY <1>1, <3>1, Progress DEF mine
  <2>4. req' \in [Clients -> Request']
    <3>1. \A d \in Clients : req'[d] \in Request
      BY <1>7, <1>9, <2>3
    <3>2. DOMAIN req' = Clients /\ req' = [d \in Clients |-> req'[d]]
      BY <1>2 DEF Touch
    <3> QED BY <2>2, <3>1, <3>2
  <2>5. Row' = Row /\ Tables'
    BY <1>1 DEF Row, Tables, TypeOK
  <2>6. snaps' \in Seq(Snapshot')
    BY <1>1, <2>2, Parts DEF TypeOK
  <2>7. clock' \in Nat /\ clock' >= clock
    BY <1>1 DEF TypeOK
  <2>8. \A d \in Clients : Placed(d)'
    BY <1>19 DEF Client
  <2>9. \E W \in SUBSET Path : World(W)
    BY <1>4, <1>11
  <2> QED BY <1>1, <1>11, <2>4, <2>5, <2>6, <2>7, <2>8, <2>9, TypesAfter
<1> QED BY <1>11, <1>19, <1>20 DEF IInv

-----------------------------------------------------------------------------
LEMMA Starts == Init => IInv
<1> SUFFICES ASSUME Init PROVE IInv
  OBVIOUS
<1>1. /\ N \in Nat /\ N >= 1 /\ Path = 1..N /\ 1 \in Path
      /\ MaxRequests \in Nat /\ MaxEdits \in Nat /\ MaxFaults \in Nat
  BY WorkingSetAssumption DEF Path
<1>2. /\ ids = 2 /\ lock = <<>> /\ snaps = <<>> /\ links \in BOOLEAN /\ live = [p \in Path |-> p]
      /\ data = [p \in Path |-> p] /\ clock = N /\ req = [c \in Clients |-> NoRequest]
      /\ requests = 0 /\ edits = 0 /\ faults = 0 /\ fresh = [p \in Path |-> 0] /\ spoilt = {}
  BY DEF Init
<1>3. data \in Seq(1..clock) /\ Len(data) = N /\ [k \in Path |-> k] \in Seq(Path)
  <2>1. data \in [1..N -> 1..N]
    BY <1>1, <1>2
  <2>2. data \in Seq(1..N) /\ Len(data) = N
    BY <1>1, <2>1
  <2> QED BY <1>1, <1>2, <2>2
<1>4. worksets \in [Names -> Row]
  <2>1. Undeclared \in Row
    BY <1>2 DEF Undeclared, Row
  <2>2. \A i \in {1, 2} : [id |-> i, paths |-> [k \in Path |-> k], container |-> FALSE] \in Row
    BY <1>2, <1>3 DEF Row
  <2> QED BY <2>1, <2>2 DEF Init
<1>5. /\ NoRequest.pc = "idle" /\ NoRequest.kind = "none" /\ NoRequest.for = "none"
      /\ NoRequest.k = 1 /\ NoRequest.left = {} /\ NoRequest.cover = {}
      /\ NoRequest.src = <<>> /\ NoRequest.over = {}
  BY DEF NoRequest
<1>6. NoRequest \in Request
  <2>1. Undeclared \in Row /\ Len(snaps) = 0
    BY <1>2 DEF Undeclared, Row
  <2> QED BY <2>1 DEF NoRequest, Request
<1>7. TypeOK
  <2>1. snaps \in Seq(Snapshot) /\ Len(snaps) = 0
    BY <1>2
  <2>2. live \in [Path -> {Missing, Link, Empty} \union 1..Len(data)]
    BY <1>1, <1>2, <1>3
  <2>3. \A c \in Clients : At(c, "swap") => req[c].k \in 1..(Len(Sources(c)) + 1)
    BY <1>2, <1>5 DEF At
  <2>4. fresh \in [Path -> 0..Len(snaps)] /\ req \in [Clients -> Request]
    BY <1>2, <1>6, <2>1
  <2> QED BY <1>1, <1>2, <1>3, <1>4, <2>1, <2>2, <2>3, <2>4 DEF TypeOK
<1>8. Apart
  BY <1>2, <1>5 DEF Apart
<1>9. Keeps
  BY <1>2 DEF Keeps, SnapshotsKeepTheirContent
<1>10. \A c \in Clients : Client(c)
  BY <1>2, <1>5 DEF Client, Placed, Took, Saves, Delivers, Reading, At
<1> QED BY <1>7, <1>8, <1>9, <1>10 DEF IInv

LEMMA Stutters ==
    ASSUME IInv, UNCHANGED vars
    PROVE  IInv'
<1>1. /\ worksets' = worksets /\ ids' = ids /\ lock' = lock /\ snaps' = snaps /\ links' = links
      /\ live' = live /\ data' = data /\ clock' = clock /\ req' = req /\ requests' = requests
      /\ edits' = edits /\ faults' = faults /\ fresh' = fresh /\ spoilt' = spoilt
  BY DEF vars, tableVars, fileVars
<1>2. TypeOK'
  BY <1>1 DEF IInv, TypeOK, Row, Request, Source, Snapshot, At, Sources
<1>3. Apart' /\ Keeps'
  BY <1>1 DEF IInv, Apart, Keeps, SnapshotsKeepTheirContent, Stamp
<1>4. World({}) /\ \A c \in Clients : Like(c, {})
  BY <1>1, Parts DEF World, Like, IInv
<1>5. \A c \in Clients : Client(c)'
  BY <1>4, ClientKept
<1> QED BY <1>2, <1>3, <1>5 DEF IInv

\* Every step of every request and of the agent keeps the invariant.
THEOREM NextIInv == IInv /\ [Next]_vars => IInv'
<1> SUFFICES ASSUME IInv, [Next]_vars PROVE IInv'
  OBVIOUS
<1>1. CASE UNCHANGED vars
  BY <1>1, Stutters
<1>2. CASE Quiet
  BY <1>2, Stutters DEF Quiet
<1>3. ASSUME NEW c \in Clients, CreateWorkset(c) \/ PutWorkset(c) \/ RefuseWorkset(c) PROVE IInv'
  BY <1>3, CreateWorksetKeeps, PutWorksetKeeps
<1>4. ASSUME NEW c \in Clients,
             CreateSnapshot(c) \/ Restore(c) \/ Lock(c) \/ SafetySnapshot(c) PROVE IInv'
  BY <1>4, CreateSnapshotKeeps, RestoreKeeps, LockKeeps, SafetySnapshotKeeps
<1>5. ASSUME NEW c \in Clients,
             CheckSources(c) \/ TakePath(c) \/ FailTake(c) \/ PutSnapshot(c) \/ FailPut(c) PROVE IInv'
  BY <1>5, CheckSourcesKeeps, TakePathKeeps, FailTakeKeeps, PutSnapshotKeeps
<1>6. ASSUME NEW c \in Clients,
             CheckDestinations(c) \/ SwapPath(c) \/ FailSwap(c) \/ RecordRestore(c) \/ Done(c) PROVE IInv'
  BY <1>6, CheckDestinationsKeeps, SwapPathKeeps, FailSwapKeeps, RecordRestoreKeeps
<1>7. ASSUME NEW p \in Path, WriteInPlace(p) \/ WriteNew(p) \/ TakeAway(p) PROVE IInv'
  BY <1>7, WriteInPlaceKeeps, WriteNewKeeps, TakeAwayKeeps
<1> QED BY <1>1, <1>2, <1>3, <1>4, <1>5, <1>6, <1>7 DEF Next

\* IInv holds in every state.
LEMMA Invariant == Spec => []IInv
<1> QED BY Starts, NextIInv, PTL DEF Spec

\* TypeOK: every variable keeps its type, whoever runs at once.
THEOREM TypeCorrect == Spec => []TypeOK
<1>1. IInv => TypeOK
  BY DEF IInv
<1> QED BY <1>1, Invariant, PTL

\* SnapshotsKeepTheirContent: only a write in place to a file that the copy
\* backend linked reaches a snapshot.
THEOREM SnapshotsKeep == Spec => []SnapshotsKeepTheirContent
<1>1. IInv => SnapshotsKeepTheirContent
  BY DEF IInv, Keeps
<1> QED BY <1>1, Invariant, PTL

\* RestoreSavesOrSays: a restore that answered wrote over no file of a
\* declared path that is neither in the safety snapshot nor in the warning.
THEOREM RestoresSaveOrSay == Spec => []RestoreSavesOrSays
<1>1. IInv => RestoreSavesOrSays
  BY DEF IInv, Client, Saves, Safe, Declared, RestoreSavesOrSays
<1> QED BY <1>1, Invariant, PTL

\* WorksetsKeepTheirGraph: whoever declares a name, and whatever was read
\* before, the identifier of its row stays.
LEMMA GraphStays ==
    ASSUME TypeOK, [Next]_vars, NEW n \in Names, worksets[n].id # 0
    PROVE  worksets'[n].id = worksets[n].id
<1>1. worksets \in [Names -> Row]
  BY DEF TypeOK
<1>2. CASE \E c \in Clients : PutWorkset(c)
  <2>1. PICK c \in Clients : /\ worksets[req[c].name].id \in {0, req[c].w.id}
                             /\ worksets' = [worksets EXCEPT ![req[c].name] = req[c].w]
    BY <1>2 DEF PutWorkset
  <2> QED BY <1>1, <2>1
<1>3. CASE worksets' = worksets
  BY <1>3
<1>4. worksets' = worksets \/ \E c \in Clients : PutWorkset(c)
  <2>1. CASE UNCHANGED vars \/ Quiet
    BY <2>1 DEF vars, tableVars, Quiet
  <2>2. ASSUME NEW c \in Clients,
               \/ CreateWorkset(c) \/ RefuseWorkset(c) \/ CreateSnapshot(c) \/ Restore(c)
               \/ Lock(c) \/ SafetySnapshot(c) \/ CheckSources(c) \/ TakePath(c) \/ FailTake(c)
        PROVE  worksets' = worksets
    BY <2>2 DEF CreateWorkset, RefuseWorkset, CreateSnapshot, Restore, Lock, SafetySnapshot,
                CheckSources, TakePath, FailTake, tableVars
  <2>3. ASSUME NEW c \in Clients,
               \/ PutSnapshot(c) \/ FailPut(c) \/ CheckDestinations(c) \/ SwapPath(c) \/ FailSwap(c)
               \/ RecordRestore(c) \/ Done(c)
        PROVE  worksets' = worksets
    BY <2>3 DEF PutSnapshot, FailPut, CheckDestinations, SwapPath, FailSwap, RecordRestore, Done, tableVars
  <2>4. ASSUME NEW p \in Path, WriteInPlace(p) \/ WriteNew(p) \/ TakeAway(p) PROVE worksets' = worksets
    BY <2>4 DEF WriteInPlace, WriteNew, TakeAway, Edit, tableVars
  <2> QED BY <2>1, <2>2, <2>3, <2>4 DEF Next
<1> QED BY <1>2, <1>3, <1>4

\* WorksetsKeepTheirGraph, as a property of every behaviour.
THEOREM WorksetsKeepGraph == Spec => WorksetsKeepTheirGraph
<1>1. IInv /\ [Next]_vars => \A n \in Names : worksets[n].id # 0 => worksets'[n].id = worksets[n].id
  BY GraphStays DEF IInv
<1> QED BY <1>1, Invariant, PTL DEF Spec, WorksetsKeepTheirGraph

\* Only PutSnapshot ends a request that is taking paths well.
LEMMA EndsByPut ==
    ASSUME IInv, Next, NEW c \in Clients, req[c].pc = "take", req[c].for = "record", req'[c].pc = "ok"
    PROVE  PutSnapshot(c)
<1>1. TypeOK /\ req \in [Clients -> Request]
  BY DEF IInv, TypeOK
<1>3. ASSUME NEW d \in Clients \ {c}, NEW x, Set(d, x) PROVE FALSE
  BY <1>1, <1>3 DEF Set
<1>4. ASSUME NEW d \in Clients \ {c}, NEW x, NEW s, Answers(d, s, x) PROVE FALSE
  BY <1>3, <1>4 DEF Answers
<1>5. ASSUME NEW d \in Clients \ {c}, Refused(d) PROVE FALSE
  BY <1>3, <1>4, <1>5 DEF Refused
<1>6. ~Quiet
  BY DEF Quiet, At
<1>7. \A p \in Path : Touch(p, req)[c].pc # "ok"
  BY <1>1 DEF Touch
<1>8. \A p \in Path : ~(WriteInPlace(p) \/ WriteNew(p) \/ TakeAway(p))
  BY <1>7 DEF WriteInPlace, WriteNew, TakeAway, Edit
<1>9. ASSUME NEW d \in Clients \ {c} PROVE ~SwapPath(d)
  <2> SUFFICES ASSUME SwapPath(d) PROVE FALSE
    BY SMTT(40)
  <2>1. PICK p, x : req' = [Touch(p, req) EXCEPT ![d] = x]
    BY DEF SwapPath, Swap
  <2>2. req'[c] = Touch(p, req)[c]
    BY <1>1, <2>1 DEF Touch
  <2>3. Touch(p, req)[c].pc = "take"
    BY <1>1 DEF Touch
  <2> QED BY <2>2, <2>3
<1>10. ASSUME NEW d \in Clients \ {c}
       PROVE  ~( \/ CreateWorkset(d) \/ PutWorkset(d) \/ RefuseWorkset(d)
                 \/ CreateSnapshot(d) \/ Restore(d) \/ Lock(d) \/ SafetySnapshot(d)
                 \/ CheckSources(d))
  BY <1>3, <1>4, <1>5, ZenonT(60) DEF CreateWorkset, PutWorkset, RefuseWorkset, CreateSnapshot, Restore, Lock, SafetySnapshot,
      CheckSources
<1>11. ASSUME NEW d \in Clients \ {c}
       PROVE  ~( \/ TakePath(d) \/ FailTake(d) \/ PutSnapshot(d) \/ FailPut(d)
                 \/ CheckDestinations(d) \/ FailSwap(d) \/ RecordRestore(d) \/ Done(d))
  BY <1>3, <1>4, <1>5 DEF TakePath, FailTake, PutSnapshot, FailPut, CheckDestinations, FailSwap, RecordRestore, Done
<1>12. ~( \/ CreateWorkset(c) \/ PutWorkset(c) \/ RefuseWorkset(c) \/ CreateSnapshot(c) \/ Restore(c)
          \/ Lock(c) \/ SafetySnapshot(c) \/ CheckSources(c) \/ CheckDestinations(c) \/ SwapPath(c)
          \/ FailSwap(c) \/ RecordRestore(c) \/ Done(c))
  BY DEF CreateWorkset, PutWorkset, RefuseWorkset, CreateSnapshot, Restore, Arrives, Lock, SafetySnapshot,
      CheckSources, CheckDestinations, SwapPath, FailSwap, Restoring, RecordRestore, Done, At
<1>13. ~Refused(c)
  <2> SUFFICES ASSUME Refused(c) PROVE FALSE
    OBVIOUS
  <2>1. req'[c] = NoRequest
    BY <1>1 DEF Refused, Answers, Set
  <2>2. NoRequest.pc = "idle"
    BY DEF NoRequest
  <2> QED BY <2>1, <2>2
<1>14. ~FailTake(c) /\ ~FailPut(c)
  BY <1>13 DEF FailTake, FailPut
<1>15. ~TakePath(c)
  <2> SUFFICES ASSUME TakePath(c) PROVE FALSE
    OBVIOUS
  <2>1. PICK i, e : Set(c, [req[c] EXCEPT !.left = @ \ {i}, !.src = Append(@, e)])
    BY DEF TakePath
  <2>2. \A l, s : \A r \in Request : [r EXCEPT !.left = l, !.src = s].pc = r.pc
    BY DEF Request
  <2>3. req'[c].pc = req[c].pc
    BY <1>1, <2>1, <2>2 DEF Set
  <2> QED BY <2>3
<1> QED BY <1>6, <1>8, <1>9, <1>10, <1>11, <1>12, <1>14, <1>15 DEF Next

\* What the recording node took of a path is what the restored snapshot holds
\* of it, where nobody else wrote.
LEMMA RecordsWhatItRestored ==
    ASSUME IInv, NEW c \in Clients, PutSnapshot(c), req[c].for = "record", Distinct(req[c].t),
           NEW p \in Path, p \in PathsOf(req[c].t), p \notin req[c].touched, NEW n, n = Len(snaps'),
           NEW t, t = req[c].t
    PROVE  ~Differs(t, n, p)'
<1> DEFINE src == req[c].src
<1>1. /\ TypeOK /\ Placed(c) /\ Took(c) /\ Delivers(c) /\ req[c] \in Request /\ req \in [Clients -> Request]
      /\ req[c].pc = "take" /\ req[c].left = {} /\ live' = live /\ data' = data
  BY Parts DEF IInv, Client, TypeOK, PutSnapshot, At, fileVars
<1>2. req[c].kind = "restore"
  BY <1>1 DEF Placed, Reading
<1>3. /\ t \in DOMAIN snaps /\ Sources(c) \in Seq(Source) /\ Sources(c) = snaps[t].src
      /\ DOMAIN Sources(c) = 1..Len(Sources(c)) /\ Len(Sources(c)) \in Nat
      /\ \A j \in DOMAIN Sources(c) : Sources(c)[j] \in Source
  BY <1>1, <1>2, Target, Parts DEF Sources
<1>4. n \in Nat /\ snaps'[n].src = src /\ snaps'[t] = snaps[t]
  <2>1. PICK node : snaps' = Append(snaps, node) /\ node.src = src
    BY DEF PutSnapshot
  <2>2. snaps \in Seq(Snapshot)
    BY <1>1 DEF TypeOK
  <2> HIDE DEF src
  <2> QED BY <1>3, <2>1, <2>2
<1>6. PICK j \in DOMAIN Sources(c) : Sources(c)[j].path = p
  BY <1>3 DEF PathsOf
<1>7. \A i \in DOMAIN Sources(c) : Sources(c)[i].path = p => i = j
  BY <1>3, <1>6 DEF Distinct
<1>8. FindSource(t, p)' = Sources(c)[j] /\ p \in PathsOf(t)'
  <2>1. (CHOOSE k \in DOMAIN snaps[t].src :
            /\ snaps[t].src[k].path = p
            /\ \A i \in 1..(k - 1) : snaps[t].src[i].path # p) = j
    <3>1. \A i \in 1..(j - 1) : i \in DOMAIN Sources(c) /\ i # j
      BY <1>3
    <3>2. \A i \in 1..(j - 1) : Sources(c)[i].path # p
      BY <1>7, <3>1
    <3> QED BY <1>3, <1>6, <1>7, <3>2
  <2> QED BY <1>3, <1>4, <1>6, <2>1, ZenonT(60) DEF FindSource, PathsOf
<1>9. Stamp(Sources(c)[j].file) = Stamp(live[p])
  <2>1. j \in Swapped(c)
    BY <1>1, <1>3 DEF Placed, Swapped
  <2> QED BY <1>1, <1>2, <1>6, <2>1 DEF Delivers, Untouched, AsIs
<1>10. \A k \in DOMAIN src : src[k].path = p => Stamp(src[k].file) = Stamp(live[p])
  BY <1>1, <1>2 DEF Took, At, Untouched, AsIs
<1>11. \A f \in {Empty} \union 1..Len(data) : Stamp(f) > 0 <=> f > 0
  BY <1>1, Stamps DEF Empty, Stamp
<1> SUFFICES ASSUME NEW k \in DOMAIN src, src[k].path = p, NEW s, s = src[k],
                    (Came(t, s) \/ Changed(t, s) \/ Went(t, s))'
             PROVE  FALSE
  BY <1>4 DEF Differs
<1>12. src[k].file > 0 <=> Sources(c)[j].file > 0
  <2>1. src[k].file \in {Empty} \union 1..Len(data) /\ Sources(c)[j].file \in {Empty} \union 1..Len(data)
    BY <1>1, <1>3, Parts DEF Source
  <2> QED BY <1>9, <1>10, <1>11, <2>1
<1> QED BY <1>1, <1>8, <1>9, <1>10, <1>12 DEF Came, Changed, Went, There, Stamp

\* NodeRecordsTheRestore: the step that writes the node of a restore leaves it
\* without a difference from the restored snapshot, where nobody else wrote.
THEOREM NodesRecordRestores == Spec => NodeRecordsTheRestore
<1> DEFINE Right ==
       \A c \in Clients :
          (/\ At(c, "take") /\ req[c].for = "record" /\ At(c, "ok")'
           /\ Distinct(req[c].t)) =>
              \A node \in {Len(snaps')},
                 p \in ({req[c].w.paths[i] : i \in req[c].cover} \intersect PathsOf(req[c].t))
                         \ req[c].touched :
                  ~Differs(req[c].t, node, p)'
<1>1. IInv /\ [Next]_vars => [Right]_vars
  <2> SUFFICES ASSUME IInv, Next, NEW c \in Clients, At(c, "take"), req[c].for = "record", At(c, "ok")',
                      Distinct(req[c].t), NEW n, n = Len(snaps'),
                      NEW p \in ({req[c].w.paths[i] : i \in req[c].cover} \intersect PathsOf(req[c].t))
                                   \ req[c].touched
               PROVE  ~Differs(req[c].t, n, p)'
    OBVIOUS
  <2>1. /\ TypeOK /\ Placed(c) /\ req[c] \in Request /\ req \in [Clients -> Request]
    BY Parts DEF IInv, Client, TypeOK
  <2>2. PutSnapshot(c)
    BY EndsByPut DEF At
  <2>3. req'[c].t = req[c].t
    <3>1. req[c].kind = "restore"
      BY <2>1 DEF Placed, Reading, At
    <3>2. req'[c] = Answer(req[c])
      BY <2>1, <2>2, <3>1 DEF PutSnapshot, Answers, Set, Answer
    <3> QED BY <2>1, <3>2, AnswerIs
  <2>4. p \in Path
    <3>1. req[c].w.paths \in Seq(Path) /\ req[c].cover \subseteq DOMAIN req[c].w.paths
      BY <2>1 DEF Placed, Request, Row
    <3> QED BY <3>1
  <2>5. PICK t : t = req[c].t
    OBVIOUS
  <2>6. ~Differs(t, n, p)'
    BY <2>2, <2>4, <2>5, RecordsWhatItRestored
  <2> QED BY <2>3, <2>5, <2>6
<1> QED BY <1>1, Invariant, PTL DEF Spec, NodeRecordsTheRestore
-----------------------------------------------------------------------------
(***************************************************************************)
(* Diff.  A list of entries in order has each of their paths: the number   *)
(* of entries before one tells them apart, so each place is somebody's.    *)
(***************************************************************************)
IsList(S) ==
    /\ IsFiniteSet(S)
    /\ \A x \in S : x.path \in Int /\ x.at \in Int
    /\ \A x, y \in S : x.path = y.path => x = y

LEMMA PlacesOf ==
    ASSUME NEW S, IsList(S)
    PROVE  /\ Cardinality(S) \in Nat
           /\ \A i \in 1..Cardinality(S) :
                 \E x \in S : /\ Cardinality({y \in S : Earlier(y, x)}) = i - 1
                              /\ \A z \in S : Cardinality({y \in S : Earlier(y, z)}) = i - 1 => z = x
           /\ \A x \in S : \E i \in 1..Cardinality(S) : Cardinality({y \in S : Earlier(y, x)}) = i - 1
<1> DEFINE n == Cardinality(S)
           below(x) == {y \in S : Earlier(y, x)}
           rank == [x \in S |-> Cardinality(below(x))]
<1>1. n \in Nat /\ IsFiniteSet(S)
  BY FS_CardinalityType DEF IsList
<1>2. /\ \A x, y \in S : x = y \/ Earlier(x, y) \/ Earlier(y, x)
      /\ \A x \in S : ~Earlier(x, x)
      /\ \A x, y, z \in S : Earlier(x, y) /\ Earlier(y, z) => Earlier(x, z)
  BY DEF IsList, Earlier
<1>3. \A x \in S : IsFiniteSet(below(x)) /\ Cardinality(below(x)) \in Nat /\ Cardinality(below(x)) <= n - 1
  <2> SUFFICES ASSUME NEW x \in S
               PROVE  IsFiniteSet(below(x)) /\ Cardinality(below(x)) \in Nat /\ Cardinality(below(x)) <= n - 1
    OBVIOUS
  <2>1. below(x) \in SUBSET S /\ x \notin below(x)
    BY <1>2
  <2> HIDE DEF below
  <2>2. IsFiniteSet(below(x)) /\ Cardinality(below(x)) <= n /\ Cardinality(below(x)) # n
    BY <1>1, <2>1, FS_Subset
  <2>3. Cardinality(below(x)) \in Nat
    BY <2>2, FS_CardinalityType
  <2> QED BY <1>1, <2>2, <2>3
<1>4. ASSUME NEW x \in S, NEW y \in S, Earlier(x, y)
      PROVE  Cardinality(below(x)) # Cardinality(below(y))
  <2>1. below(x) \in SUBSET below(y) /\ x \in below(y) /\ x \notin below(x)
    BY <1>2, <1>4
  <2>2. IsFiniteSet(below(y))
    BY <1>3
  <2> HIDE DEF below
  <2> QED BY <2>1, <2>2, FS_Subset
<1> HIDE DEF below
<1>5. \A x, y \in S : rank[x] = rank[y] => x = y
  BY <1>2, <1>4
<1>6. rank \in [S -> 0..(n - 1)]
  BY <1>1, <1>3
<1>7. IsFiniteSet(0..(n - 1)) /\ Cardinality(0..(n - 1)) = n
  <2>1. 0 \in Int /\ n - 1 \in Int
    BY <1>1
  <2>2. IsFiniteSet(0..(n - 1)) /\ Cardinality(0..(n - 1)) = IF 0 > n - 1 THEN 0 ELSE n - 1 - 0 + 1
    BY <2>1, FS_Interval
  <2> QED BY <1>1, <2>2
<1>8. \A r \in 0..(n - 1) : \E x \in S : rank[x] = r
  <2>1. rank \in Injection(S, 0..(n - 1))
    BY <1>5, <1>6 DEF Injection, IsInjective
  <2> HIDE DEF rank, n
  <2>2. rank \in Surjection(S, 0..(n - 1))
    BY <1>7, <2>1, FS_Injection DEF n
  <2> QED BY <2>2 DEF Surjection
<1>9. \A i \in 1..n : \E x \in S : /\ Cardinality(below(x)) = i - 1
                                   /\ \A z \in S : Cardinality(below(z)) = i - 1 => z = x
  <2> SUFFICES ASSUME NEW i \in 1..n
               PROVE  \E x \in S : /\ Cardinality(below(x)) = i - 1
                                   /\ \A z \in S : Cardinality(below(z)) = i - 1 => z = x
    OBVIOUS
  <2>1. i - 1 \in 0..(n - 1)
    BY <1>1
  <2>2. PICK x \in S : rank[x] = i - 1
    BY <1>8, <2>1
  <2>3. \A z \in S : rank[z] = Cardinality(below(z))
    OBVIOUS
  <2> HIDE DEF rank
  <2> QED BY <1>5, <2>2, <2>3
<1>10. \A x \in S : \E i \in 1..n : Cardinality(below(x)) = i - 1
  <2> SUFFICES ASSUME NEW x \in S PROVE \E i \in 1..n : Cardinality(below(x)) = i - 1
    OBVIOUS
  <2> DEFINE i == Cardinality(below(x)) + 1
  <2>1. i \in 1..n /\ Cardinality(below(x)) = i - 1
    BY <1>1, <1>3
  <2> HIDE DEF i
  <2> QED BY <2>1
<1> QED BY <1>1, <1>9, <1>10 DEF below

LEMMA InOrderIs ==
    ASSUME NEW S, IsList(S)
    PROVE  /\ InOrder(S) \in Seq({x.path : x \in S}) /\ Len(InOrder(S)) = Cardinality(S)
           /\ Cardinality(S) \in Nat
           /\ ToSet(InOrder(S)) = {x.path : x \in S} /\ IsInjective(InOrder(S))
<1> DEFINE n == Cardinality(S)
           place(x) == Cardinality({y \in S : Earlier(y, x)})
           at(i) == CHOOSE x \in S : place(x) = i - 1
           s == InOrder(S)
<1>1. /\ n \in Nat
      /\ \A i \in 1..n : \E x \in S : place(x) = i - 1 /\ \A z \in S : place(z) = i - 1 => z = x
      /\ \A x \in S : \E i \in 1..n : place(x) = i - 1
  BY PlacesOf
<1>2. s = [i \in 1..n |-> at(i).path]
  BY DEF InOrder
<1> HIDE DEF place, n
<1>3. \A i \in 1..n : at(i) \in S /\ place(at(i)) = i - 1
  BY <1>1
<1>4. \A x \in S : \E i \in 1..n : at(i) = x
  BY <1>1, <1>3
<1>5. \A i, j \in 1..n : at(i) = at(j) => i = j
  <2> SUFFICES ASSUME NEW i \in 1..n, NEW j \in 1..n, at(i) = at(j) PROVE i = j
    OBVIOUS
  <2>1. i - 1 = j - 1
    BY <1>3
  <2> QED BY <1>1, <2>1
<1> HIDE DEF at, s
<1>6. DOMAIN s = 1..n /\ \A i \in 1..n : s[i] = at(i).path
  BY <1>2
<1>7. s \in Seq({x.path : x \in S}) /\ Len(s) = n
  <2>1. s \in [1..n -> {x.path : x \in S}]
    BY <1>2, <1>3
  <2> DEFINE P == {x.path : x \in S}
  <2> HIDE DEF P
  <2>2. s \in [1..n -> P]
    BY <2>1 DEF P
  <2>3. s \in Seq(P) /\ Len(s) = n
    BY <1>1, <2>2
  <2> QED BY <2>3 DEF P
<1>8. ToSet(s) = {x.path : x \in S}
  BY <1>3, <1>4, <1>6 DEF ToSet
<1>9. IsInjective(s)
  <2>1. \A x, y \in S : x.path = y.path => x = y
    BY DEF IsList
  <2> QED BY <1>3, <1>5, <1>6, <2>1 DEF IsInjective
<1> QED BY <1>1, <1>7, <1>8, <1>9 DEF s, n

\* A list that is cut has some of its paths, one that is not all of them.
LEMMA CappedIs ==
    ASSUME NEW S, IsList(S)
    PROVE  /\ ToSet(Capped(S)) \subseteq {x.path : x \in S}
           /\ ~(Cardinality(S) > DiffCap) => /\ ToSet(Capped(S)) = {x.path : x \in S}
                                            /\ IsInjective(Capped(S))
<1> DEFINE n == Cardinality(S)
           m == IF n > DiffCap THEN DiffCap ELSE n
           s == InOrder(S)
           P == {x.path : x \in S}
<1>1. n \in Nat /\ s \in Seq(P) /\ Len(s) = n /\ ToSet(s) = P /\ IsInjective(s)
  BY InOrderIs
<1>2. Capped(S) = SubSeq(s, 1, m)
  BY DEF Capped
<1>3. m \in 0..n
  BY <1>1, WorkingSetAssumption
<1> HIDE DEF n, m, s, P
<1>4. DOMAIN SubSeq(s, 1, m) = 1..m /\ \A i \in 1..m : SubSeq(s, 1, m)[i] = s[i]
  BY <1>1, <1>3
<1>5. \A i \in 1..m : i \in DOMAIN s
  BY <1>1, <1>3
<1>6. ToSet(Capped(S)) \subseteq P
  BY <1>1, <1>2, <1>4, <1>5 DEF ToSet
<1>7. ASSUME ~(n > DiffCap) PROVE ToSet(Capped(S)) = P /\ IsInjective(Capped(S))
  <2>1. m = n
    BY <1>7 DEF m
  <2>2. DOMAIN s = 1..m
    BY <1>1, <2>1
  <2>3. ToSet(Capped(S)) = ToSet(s)
    BY <1>2, <1>4, <2>2 DEF ToSet
  <2>4. IsInjective(Capped(S))
    BY <1>1, <1>2, <1>4, <2>2 DEF IsInjective
  <2> QED BY <1>1, <2>3, <2>4
<1> QED BY <1>6, <1>7 DEF n, P

\* Lists that share no path are one list.
LEMMA JoinedLists ==
    ASSUME NEW S, NEW T, IsList(S), IsList(T), \A x \in S : \A y \in T : x.path # y.path
    PROVE  IsList(S \union T)
<1>1. IsFiniteSet(S \union T)
  BY FS_Union DEF IsList
<1> QED BY <1>1 DEF IsList

\* A snapshot with one source for a path, and no path that the agent reached.
Clear(s) == s \in DOMAIN snaps /\ Distinct(s) /\ \A p \in Path : <<s, p>> \notin spoilt

\* The source of a path is the one Diff finds, and its file's stamp is what
\* was taken of the path: 0 where there is no file.
LEMMA SourceIs ==
    ASSUME TypeOK, Keeps, NEW s, Clear(s)
    PROVE  /\ \A k \in DOMAIN snaps[s].src :
                 LET e == snaps[s].src[k] IN
                 /\ e.path \in Path /\ e.path \in PathsOf(s) /\ FindSource(s, e.path) = e
                 /\ Content(s, e.path) = Stamp(e.file) /\ (There(e) <=> Content(s, e.path) # 0)
           /\ \A p \in PathsOf(s) : \E k \in DOMAIN snaps[s].src : snaps[s].src[k].path = p
           /\ \A p : p \notin PathsOf(s) => Content(s, p) = 0
<1> DEFINE src == snaps[s].src
<1>1. /\ s \in DOMAIN snaps /\ DOMAIN src \subseteq Nat /\ \A k \in DOMAIN src : src[k] \in Source
      /\ \A k \in DOMAIN src : \A j \in 1..(k - 1) : j \in DOMAIN src
  <2>1. s \in DOMAIN snaps /\ \A k \in DOMAIN src : src[k] \in Source
    BY Parts DEF Clear
  <2>2. src \in Seq(Source)
    BY <2>1, Parts DEF Snapshot
  <2> HIDE DEF src
  <2>3. DOMAIN src = 1..Len(src) /\ Len(src) \in Nat
    BY <2>2
  <2> QED BY <2>1, <2>3 DEF src
<1>2. ASSUME NEW k \in DOMAIN src, NEW e, e = src[k]
      PROVE  /\ e.path \in Path /\ e.path \in PathsOf(s) /\ FindSource(s, e.path) = e
             /\ Content(s, e.path) = Stamp(e.file) /\ (There(e) <=> Content(s, e.path) # 0)
  <2>1. e.path \in Path /\ e.path \in PathsOf(s) /\ e.file \in {Empty} \union 1..Len(data)
    BY <1>1, <1>2 DEF Source, PathsOf
  <2>2. \A j \in DOMAIN src : src[j].path = e.path => j = k
    BY <1>2 DEF Clear, Distinct
  <2>3. FindSource(s, e.path) = e
    <3>1. \A j \in 1..(k - 1) : src[j].path # e.path
      <4>1. \A j \in 1..(k - 1) : j # k
        BY <1>1
      <4> QED BY <1>1, <2>2, <4>1
    <3>2. (CHOOSE i \in DOMAIN src : /\ src[i].path = e.path
                                     /\ \A j \in 1..(i - 1) : src[j].path # e.path) = k
      BY <1>2, <2>2, <3>1
    <3> QED BY <1>2, <3>2 DEF FindSource
  <2>4. Content(s, e.path) = snaps[s].taken[k]
    <3>1. (CHOOSE i \in DOMAIN src : src[i].path = e.path) = k
      BY <1>2, <2>2
    <3> QED BY <2>1, <3>1 DEF Content
  <2>5. Stamp(e.file) = snaps[s].taken[k]
    BY <1>1, <1>2, <2>1 DEF Keeps, SnapshotsKeepTheirContent, Clear
  <2>6. There(e) <=> Stamp(e.file) # 0
    BY <2>1, Stamps, Parts DEF There, Empty, Stamp, TypeOK
  <2> QED BY <2>1, <2>3, <2>4, <2>5, <2>6
<1>3. \A p \in PathsOf(s) : \E k \in DOMAIN src : src[k].path = p
  BY DEF PathsOf
<1>4. \A p : p \notin PathsOf(s) => Content(s, p) = 0
  BY DEF Content
<1> QED BY <1>2, <1>3, <1>4

\* Its sources are a list.
LEMMA EntriesAre ==
    ASSUME TypeOK, NEW s, Clear(s), NEW found, found \subseteq DOMAIN snaps[s].src
    PROVE  /\ IsList(Entries(s, found))
           /\ {x.path : x \in Entries(s, found)} = {snaps[s].src[k].path : k \in found}
<1> DEFINE src == snaps[s].src
           entry == [k \in found |-> [path |-> src[k].path, at |-> k]]
<1>1. /\ DOMAIN src = 1..Len(src) /\ Len(src) \in Nat
      /\ \A k \in DOMAIN src : src[k].path \in Path
  <2>1. s \in DOMAIN snaps /\ \A k \in DOMAIN src : src[k] \in Source
    BY Parts DEF Clear
  <2>2. src \in Seq(Source)
    BY <2>1, Parts DEF Snapshot
  <2>3. \A k \in DOMAIN src : src[k].path \in Path
    BY <2>1 DEF Source
  <2> HIDE DEF src
  <2> QED BY <2>2, <2>3
<1>2. IsFiniteSet(found)
  <2>1. 1 \in Int /\ Len(src) \in Int
    BY <1>1
  <2>2. IsFiniteSet(1..Len(src))
    BY <2>1, FS_Interval
  <2> QED BY <1>1, <2>2, FS_Subset
<1>3. IsFiniteSet(Entries(s, found))
  <2>1. entry \in Surjection(found, Entries(s, found))
    BY DEF Surjection, Entries
  <2> HIDE DEF entry
  <2> QED BY <1>2, <2>1, FS_Surjection
<1>4. \A k \in found : src[k].path \in Int /\ k \in Int
  BY <1>1 DEF Path
<1>5. \A j, k \in found : src[j].path = src[k].path => j = k
  BY DEF Clear, Distinct
<1>6. IsList(Entries(s, found))
  BY <1>3, <1>4, <1>5 DEF IsList, Entries
<1>7. {x.path : x \in Entries(s, found)} = {src[k].path : k \in found}
  <2>1. \A x \in Entries(s, found) : \E k \in found : x.path = src[k].path
    BY DEF Entries
  <2>2. \A k \in found : \E x \in Entries(s, found) : x.path = src[k].path
    <3> SUFFICES ASSUME NEW k \in found PROVE \E x \in Entries(s, found) : x.path = src[k].path
      OBVIOUS
    <3> DEFINE x == [path |-> src[k].path, at |-> k]
    <3>1. x \in Entries(s, found) /\ x.path = src[k].path
      BY DEF Entries
    <3> HIDE DEF x
    <3> QED BY <3>1
  <2> HIDE DEF src
  <2> QED BY <2>1, <2>2
<1> QED BY <1>6, <1>7

\* What Diff asks of a source is what became of the content of its path.
LEMMA SidesAre ==
    ASSUME TypeOK, Keeps, NEW f, Clear(f), NEW t, Clear(t)
    PROVE  /\ \A k \in DOMAIN snaps[t].src :
                 LET e == snaps[t].src[k] IN
                 /\ Came(f, e) <=> Content(f, e.path) = 0 /\ Content(t, e.path) # 0
                 /\ Changed(f, e) <=> /\ Content(f, e.path) # 0 /\ Content(t, e.path) # 0
                                      /\ Content(f, e.path) # Content(t, e.path)
                 /\ Went(f, e) <=> Content(f, e.path) # 0 /\ Content(t, e.path) = 0
           /\ \A k \in DOMAIN snaps[f].src :
                 LET e == snaps[f].src[k] IN
                 Dropped(t, e) <=> e.path \notin PathsOf(t) /\ Content(f, e.path) # 0
<1>1. ASSUME NEW k \in DOMAIN snaps[t].src, NEW e, e = snaps[t].src[k]
      PROVE  /\ Came(f, e) <=> Content(f, e.path) = 0 /\ Content(t, e.path) # 0
             /\ Changed(f, e) <=> /\ Content(f, e.path) # 0 /\ Content(t, e.path) # 0
                                  /\ Content(f, e.path) # Content(t, e.path)
             /\ Went(f, e) <=> Content(f, e.path) # 0 /\ Content(t, e.path) = 0
  <2>1. Content(t, e.path) = Stamp(e.file) /\ (There(e) <=> Content(t, e.path) # 0)
    BY <1>1, SourceIs
  <2>2. CASE e.path \in PathsOf(f)
    <3>1. PICK j \in DOMAIN snaps[f].src : snaps[f].src[j].path = e.path
      BY <2>2, SourceIs
    <3> DEFINE o == snaps[f].src[j]
    <3>2. /\ FindSource(f, e.path) = o /\ Content(f, e.path) = Stamp(o.file)
          /\ There(o) <=> Content(f, e.path) # 0
      BY <3>1, SourceIs
    <3> HIDE DEF o
    <3> QED BY <2>1, <2>2, <3>2 DEF Came, Changed, Went
  <2>3. CASE e.path \notin PathsOf(f)
    <3>1. Content(f, e.path) = 0
      BY <2>3, SourceIs
    <3> QED BY <2>1, <2>3, <3>1 DEF Came, Changed, Went
  <2> QED BY <2>2, <2>3
<1>2. \A k \in DOMAIN snaps[f].src :
         LET e == snaps[f].src[k] IN
         Dropped(t, e) <=> e.path \notin PathsOf(t) /\ Content(f, e.path) # 0
  BY SourceIs DEF Dropped
<1> QED BY <1>1, <1>2

\* Each path's content in two snapshots tells which list it is in.
Gained(f, t) == {p \in Path : Content(f, p) = 0 /\ Content(t, p) # 0}
Altered(f, t) == {p \in Path : /\ Content(f, p) # 0 /\ Content(t, p) # 0
                               /\ Content(f, p) # Content(t, p)}
Lost(f, t) == {p \in Path : Content(f, p) # 0 /\ Content(t, p) = 0}

LEMMA DiffTreeIs ==
    ASSUME TypeOK, Keeps, NEW f, Clear(f), NEW t, Clear(t), NEW d, d = DiffTree(f, t)
    PROVE  /\ IsList(d.added) /\ {x.path : x \in d.added} = Gained(f, t)
           /\ IsList(d.modified) /\ {x.path : x \in d.modified} = Altered(f, t)
           /\ IsList(d.deleted) /\ {x.path : x \in d.deleted} = Lost(f, t)
<1> DEFINE later == snaps[t].src
           earlier == snaps[f].src
           came == {k \in DOMAIN later : Came(f, later[k])}
           changed == {k \in DOMAIN later : Changed(f, later[k])}
           went == {k \in DOMAIN later : Went(f, later[k])}
           dropped == {k \in DOMAIN earlier : Dropped(t, earlier[k])}
<1>1. /\ d.added = Entries(t, came) /\ d.modified = Entries(t, changed)
      /\ d.deleted = Entries(t, went) \union Entries(f, dropped)
  BY DEF DiffTree
<1>2. /\ \A k \in DOMAIN later : later[k].path \in Path /\ later[k].path \in PathsOf(t)
      /\ \A k \in DOMAIN earlier : earlier[k].path \in Path /\ earlier[k].path \in PathsOf(f)
      /\ \A p : Content(t, p) # 0 => \E k \in DOMAIN later : later[k].path = p
      /\ \A p : Content(f, p) # 0 => \E k \in DOMAIN earlier : earlier[k].path = p
      /\ \A p \in PathsOf(t) : \E k \in DOMAIN later : later[k].path = p
      /\ \A p : p \notin PathsOf(t) => Content(t, p) = 0
  BY SourceIs
<1>3. /\ came \subseteq DOMAIN later /\ changed \subseteq DOMAIN later /\ went \subseteq DOMAIN later
      /\ dropped \subseteq DOMAIN earlier
  OBVIOUS
<1>4. \A k \in DOMAIN later :
         /\ k \in came <=> Content(f, later[k].path) = 0 /\ Content(t, later[k].path) # 0
         /\ k \in changed <=> /\ Content(f, later[k].path) # 0 /\ Content(t, later[k].path) # 0
                              /\ Content(f, later[k].path) # Content(t, later[k].path)
         /\ k \in went <=> Content(f, later[k].path) # 0 /\ Content(t, later[k].path) = 0
  BY SidesAre
<1>5. \A k \in DOMAIN earlier :
         k \in dropped <=> earlier[k].path \notin PathsOf(t) /\ Content(f, earlier[k].path) # 0
  BY SidesAre
<1> HIDE DEF came, changed, went, dropped
<1>6. IsList(d.added) /\ {x.path : x \in d.added} = {later[k].path : k \in came}
  <2>1. IsList(Entries(t, came)) /\ {x.path : x \in Entries(t, came)} = {later[k].path : k \in came}
    BY <1>3, EntriesAre
  <2> QED BY <1>1, <2>1
<1>7. IsList(d.modified) /\ {x.path : x \in d.modified} = {later[k].path : k \in changed}
  <2>1. /\ IsList(Entries(t, changed))
        /\ {x.path : x \in Entries(t, changed)} = {later[k].path : k \in changed}
    BY <1>3, EntriesAre
  <2> QED BY <1>1, <2>1
<1>8. IsList(Entries(t, went)) /\ {x.path : x \in Entries(t, went)} = {later[k].path : k \in went}
  BY <1>3, EntriesAre
<1>9. /\ IsList(Entries(f, dropped))
      /\ {x.path : x \in Entries(f, dropped)} = {earlier[k].path : k \in dropped}
  BY <1>3, EntriesAre
<1>10. {later[k].path : k \in came} = Gained(f, t)
  BY <1>2, <1>3, <1>4 DEF Gained
<1>11. {later[k].path : k \in changed} = Altered(f, t)
  BY <1>2, <1>3, <1>4 DEF Altered
<1>12. IsList(d.deleted)
  <2> DEFINE S == Entries(t, went)
             T == Entries(f, dropped)
  <2>1. \A x \in S : x.path \in {later[k].path : k \in went}
    BY <1>8
  <2>2. \A x \in T : x.path \in {earlier[k].path : k \in dropped}
    BY <1>9
  <2>3. \A x \in S : \A y \in T : x.path # y.path
    BY <1>2, <1>3, <1>5, <2>1, <2>2
  <2> HIDE DEF S, T
  <2> QED BY <1>1, <1>8, <1>9, <2>3, JoinedLists DEF S, T
<1>13. {x.path : x \in d.deleted} = {later[k].path : k \in went} \union {earlier[k].path : k \in dropped}
  BY <1>1, <1>8, <1>9
<1>14. {later[k].path : k \in went} \union {earlier[k].path : k \in dropped} = Lost(f, t)
  <2>1. ASSUME NEW p \in Lost(f, t)
        PROVE  p \in {later[k].path : k \in went} \union {earlier[k].path : k \in dropped}
    <3>1. CASE p \in PathsOf(t)
      BY <1>2, <1>4, <2>1, <3>1 DEF Lost
    <3>2. CASE p \notin PathsOf(t)
      BY <1>2, <1>5, <2>1, <3>2 DEF Lost
    <3> QED BY <3>1, <3>2
  <2>2. \A k \in went : later[k].path \in Lost(f, t)
    BY <1>2, <1>3, <1>4 DEF Lost
  <2>3. \A k \in dropped : earlier[k].path \in Lost(f, t)
    BY <1>2, <1>3, <1>5 DEF Lost
  <2> QED BY <2>1, <2>2, <2>3
<1> QED BY <1>6, <1>7, <1>10, <1>11, <1>12, <1>13, <1>14

LEMMA DiffIs ==
    ASSUME TypeOK, Keeps, NEW f, NEW t, f \in DOMAIN snaps, t \in DOMAIN snaps
    PROVE  DiffRight(f, t)
<1> SUFFICES ASSUME Clear(f), Clear(t)
             PROVE  LET d == Diff(f, t)
                        true == [added |-> Gained(f, t), modified |-> Altered(f, t), deleted |-> Lost(f, t)]
                    IN /\ \A x \in DOMAIN true : ToSet(d[x]) \subseteq true[x]
                       /\ d.truncated \/ \A x \in DOMAIN true : ToSet(d[x]) = true[x] /\ IsInjective(d[x])
  BY DEF DiffRight, Clear, Gained, Altered, Lost
<1> DEFINE tree == DiffTree(f, t)
           d == Diff(f, t)
           true == [added |-> Gained(f, t), modified |-> Altered(f, t), deleted |-> Lost(f, t)]
<1>1. /\ d.added = Capped(tree.added) /\ d.modified = Capped(tree.modified)
      /\ d.deleted = Capped(tree.deleted)
      /\ ~d.truncated => /\ ~(Cardinality(tree.added) > DiffCap)
                         /\ ~(Cardinality(tree.modified) > DiffCap)
                         /\ ~(Cardinality(tree.deleted) > DiffCap)
  BY DEF Diff, CapPaths
<1>2. /\ IsList(tree.added) /\ {x.path : x \in tree.added} = Gained(f, t)
      /\ IsList(tree.modified) /\ {x.path : x \in tree.modified} = Altered(f, t)
      /\ IsList(tree.deleted) /\ {x.path : x \in tree.deleted} = Lost(f, t)
  BY DiffTreeIs
<1> HIDE DEF tree, d
<1>3. ASSUME NEW S, IsList(S), NEW P, {x.path : x \in S} = P
      PROVE  /\ ToSet(Capped(S)) \subseteq P
             /\ ~(Cardinality(S) > DiffCap) => ToSet(Capped(S)) = P /\ IsInjective(Capped(S))
  BY <1>3, CappedIs
<1>4. /\ ToSet(d.added) \subseteq Gained(f, t)
      /\ ~d.truncated => ToSet(d.added) = Gained(f, t) /\ IsInjective(d.added)
  BY <1>1, <1>2, <1>3
<1>5. /\ ToSet(d.modified) \subseteq Altered(f, t)
      /\ ~d.truncated => ToSet(d.modified) = Altered(f, t) /\ IsInjective(d.modified)
  BY <1>1, <1>2, <1>3
<1>6. /\ ToSet(d.deleted) \subseteq Lost(f, t)
      /\ ~d.truncated => ToSet(d.deleted) = Lost(f, t) /\ IsInjective(d.deleted)
  BY <1>1, <1>2, <1>3
<1>7. /\ DOMAIN true = {"added", "modified", "deleted"}
      /\ true["added"] = Gained(f, t) /\ true["modified"] = Altered(f, t) /\ true["deleted"] = Lost(f, t)
      /\ d["added"] = d.added /\ d["modified"] = d.modified /\ d["deleted"] = d.deleted
  OBVIOUS
<1> HIDE DEF true
<1>8. \A x \in DOMAIN true : ToSet(d[x]) \subseteq true[x]
  BY <1>4, <1>5, <1>6, <1>7
<1>9. ~d.truncated => \A x \in DOMAIN true : ToSet(d[x]) = true[x] /\ IsInjective(d[x])
  BY <1>4, <1>5, <1>6, <1>7
<1> QED BY <1>8, <1>9 DEF d, true

\* DiffAnswers: Diff of two snapshots tells path by path how they differed when
\* they were taken, and says so when a list was cut, whoever is at work.
THEOREM DiffsAnswer == Spec => []DiffAnswers
<1>1. IInv => DiffAnswers
  BY DiffIs DEF IInv, DiffAnswers
<1> QED BY <1>1, Invariant, PTL
==============================================================================
