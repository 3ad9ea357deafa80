----------------------------- MODULE WorkingSet -----------------------------
(***************************************************************************)
(* What a snapshot covers: the worksets of the store and the paths they    *)
(* declare, CreateSnapshot and Restore of internal/api over those paths,   *)
(* Diff, and the file system under both with an agent at work in it.       *)
(*                                                                         *)
(* A path holds one file or none; two files in one tree would only repeat  *)
(* what one shows.  A file is an inode, whose content (size and time, all  *)
(* that Diff looks at) is a stamp that each write renews.  The steps inside *)
(* an engine call are in EngineRestore, the graph is in SnapshotService.   *)
(***************************************************************************)
EXTENDS Integers, Sequences, FiniteSets, SequencesExt

CONSTANTS
    Clients,       \* requests in progress at once
    Names,         \* names of worksets
    N,             \* paths a workset may declare
    DiffCap,       \* the most paths a list of Diff returns
    MaxRequests,   \* bound: requests
    MaxEdits,      \* bound: edits of the agent
    MaxFaults      \* bound: engine calls and statements that fail

ASSUME WorkingSetAssumption ==
    /\ N \in Nat \ {0} /\ DiffCap \in Nat
    /\ MaxRequests \in Nat /\ MaxEdits \in Nat /\ MaxFaults \in Nat

Path == 1..N

\* What a path holds when it is not a file's inode.
Missing == 0
Link == -1
Empty == -2

VARIABLES
    worksets,   \* the table: each name's row, id 0 for none
    ids,        \* identifiers handed out
    lock,       \* each workset's lock
    snaps,      \* the snapshots in the order of their rows
    links,      \* whether the engine shares inodes with the working set (copy)
    live,       \* what each path holds
    data,       \* each inode's stamp
    clock,      \* stamps handed out
    req,        \* each client's request
    requests, edits, faults,
    fresh,      \* history: snapshots there were when the file at a path was made
    spoilt      \* history: snapshots and paths an in-place write may reach

tableVars == <<worksets, ids>>
fileVars == <<live, data, clock, fresh, spoilt>>
vars == <<tableVars, lock, snaps, links, fileVars, req, requests, edits, faults>>

Undeclared == [id |-> 0, paths |-> <<>>, container |-> FALSE]

(***************************************************************************)
(* A request's locals: the workset as read, the snapshot to restore; which *)
(* of the workset's paths to cover, which of them are left to take and the *)
(* sources taken so far, and the write they are for; the source a restore  *)
(* is at, the safety snapshot and the paths the warning names; and         *)
(* history: what the restore wrote over that was there when it got the     *)
(* lock, and the paths others wrote since.                                 *)
(***************************************************************************)
NoRequest == [pc |-> "idle", kind |-> "none", name |-> "", w |-> Undeclared, t |-> 0,
              cover |-> {}, left |-> {}, src |-> <<>>, for |-> "none", k |-> 1, safe |-> 0,
              said |-> {}, over |-> {}, touched |-> {}]

Init ==
    /\ worksets \in [Names -> {Undeclared} \union
                              {[id |-> i, paths |-> [k \in Path |-> k], container |-> FALSE] :
                                  i \in {1, 2}}]
    /\ \A m, n \in Names : worksets[m].id = worksets[n].id /\ worksets[m].id # 0 => m = n
    /\ \E n \in Names : worksets[n].id = 1
    /\ ids = 2
    /\ lock = <<>>
    /\ snaps = <<>>
    /\ links \in BOOLEAN
    /\ live = [p \in Path |-> p]
    /\ data = [p \in Path |-> p]
    /\ clock = N
    /\ req = [c \in Clients |-> NoRequest]
    /\ requests = 0 /\ edits = 0 /\ faults = 0
    /\ fresh = [p \in Path |-> 0] /\ spoilt = {}

Set(c, r) == req' = [req EXCEPT ![c] = r]
At(c, pc) == req[c].pc = pc
Trips == faults < MaxFaults /\ faults' = faults + 1

Arrives(c) == /\ At(c, "idle") /\ requests < MaxRequests
              /\ requests' = requests + 1

\* The answer; whoever held a lock gives it back.  What a restore answers is
\* looked at before the client goes on.
Held(c) == {i \in DOMAIN lock : lock[i] = c}
Answers(c, res, r) ==
    /\ Set(c, IF res = "error" \/ r.kind # "restore" THEN NoRequest
              ELSE [NoRequest EXCEPT !.pc = "ok", !.kind = r.kind, !.w = r.w, !.t = r.t,
                                     !.safe = r.safe, !.said = r.said, !.over = r.over])
    /\ lock' = [i \in DOMAIN lock \ Held(c) |-> lock[i]]

\* CheckSource: there, not a symlink, a directory.
Usable(p) == live[p] \notin {Missing, Link}
UsableOf(w) == {k \in DOMAIN w.paths : Usable(w.paths[k])}
SkippedOf(w) == {w.paths[k] : k \in DOMAIN w.paths \ UsableOf(w)}
-----------------------------------------------------------------------------
(***************************************************************************)
(* CreateWorkset.                                                          *)
(***************************************************************************)
\* Mutant of Resolve: the empty answer of a failed lookup is kept.
ResolveKeepsEmpty(p) ==
    IF live[p] = Link /\ Usable(N) THEN N ELSE IF Usable(p) THEN p ELSE 0

\* A symlink points at the last path.  One to nothing is kept as written.
Resolve(p) == IF live[p] = Link /\ Usable(N) THEN N ELSE p

\* The row that is there is read, the row that will be is made.
CreateWorkset(c) ==
    /\ Arrives(c)
    /\ \E n \in Names, ps \in {<<1>>, [k \in Path |-> k]}, b \in BOOLEAN :
          /\ b => ps = <<1>>
          /\ LET fresh_id == worksets[n].id = 0 IN
             /\ ids' = IF fresh_id THEN ids + 1 ELSE ids
             /\ Set(c, [NoRequest EXCEPT
                           !.pc = "put", !.kind = "declare", !.name = n,
                           !.w = [id |-> IF fresh_id THEN ids + 1 ELSE worksets[n].id,
                                  paths |-> [k \in DOMAIN ps |-> Resolve(ps[k])],
                                  container |-> b]])
    /\ UNCHANGED <<worksets, lock, snaps, links, fileVars, edits, faults>>

\* Mutant of PutWorkset: the row of the name is replaced, whoever made it.
PutWorksetReplaces(c) ==
    /\ At(c, "put")
    /\ worksets' = [worksets EXCEPT ![req[c].name] = req[c].w]
    /\ Answers(c, "ok", req[c])
    /\ UNCHANGED <<ids, snaps, links, fileVars, requests, edits, faults>>

\* The upsert is by identifier; another row of that name makes it fail.
PutWorkset(c) ==
    /\ At(c, "put")
    /\ worksets[req[c].name].id \in {0, req[c].w.id}
    /\ worksets' = [worksets EXCEPT ![req[c].name] = req[c].w]
    /\ Answers(c, "ok", req[c])
    /\ UNCHANGED <<ids, snaps, links, fileVars, requests, edits, faults>>

RefuseWorkset(c) ==
    /\ At(c, "put")
    /\ IF worksets[req[c].name].id \in {0, req[c].w.id} THEN Trips ELSE UNCHANGED faults
    /\ Answers(c, "error", req[c])
    /\ UNCHANGED <<tableVars, snaps, links, fileVars, requests, edits>>

-----------------------------------------------------------------------------
(***************************************************************************)
(* CreateSnapshot and the first half of Restore.  The workset is read      *)
(* before the lock; what is declared while the request waits is not seen.  *)
(***************************************************************************)
CreateSnapshot(c) ==
    /\ Arrives(c)
    /\ \E n \in Names :
          /\ worksets[n].id # 0
          /\ LET r == [NoRequest EXCEPT !.kind = "create", !.w = worksets[n]] IN
             IF worksets[n].container THEN Answers(c, "error", r)
             ELSE Set(c, [r EXCEPT !.pc = "lock"]) /\ UNCHANGED lock
    /\ UNCHANGED <<tableVars, snaps, links, fileVars, edits, faults>>

Restore(c) ==
    /\ Arrives(c)
    /\ \E t \in DOMAIN snaps : \E n \in Names :
          /\ worksets[n].id = snaps[t].ws
          /\ Set(c, [NoRequest EXCEPT !.pc = "lock", !.kind = "restore", !.w = worksets[n], !.t = t])
    /\ UNCHANGED <<tableVars, lock, snaps, links, fileVars, edits, faults>>

\* A create covers every path, a safety snapshot those that can be read.
Lock(c) ==
    /\ At(c, "lock") /\ req[c].w.id \notin DOMAIN lock
    /\ lock' = [i \in DOMAIN lock \union {req[c].w.id} |->
                   IF i = req[c].w.id THEN c ELSE lock[i]]
    /\ LET r == [req[c] EXCEPT !.touched = {}] IN
       Set(c, CASE r.kind = "create" ->
                      [r EXCEPT !.pc = "begin", !.for = "create", !.cover = DOMAIN r.w.paths]
                [] r.kind = "restore" -> [r EXCEPT !.pc = "safety"])
    /\ UNCHANGED <<tableVars, snaps, links, fileVars, requests, edits, faults>>

SafetySnapshot(c) ==
    /\ At(c, "safety")
    /\ LET u == UsableOf(req[c].w) IN
       Set(c, IF u = {} THEN [req[c] EXCEPT !.pc = "check", !.said = Path]
              ELSE [req[c] EXCEPT !.pc = "begin", !.for = "safety", !.cover = u,
                                  !.said = SkippedOf(req[c].w)])
    /\ UNCHANGED <<tableVars, lock, snaps, links, fileVars, requests, edits, faults>>

-----------------------------------------------------------------------------
(***************************************************************************)
(* snapshotPathsLocked over engine.Create: the sources are checked, then   *)
(* taken one by one while the agent goes on.                               *)
(***************************************************************************)
\* The safety snapshot is over; the restore goes on.
Over(r) == [r EXCEPT !.pc = "check", !.for = "none", !.cover = {}, !.left = {}, !.src = <<>>]

\* Mutant of Refused: the warning does not say that there is none.
RefusedSilently(c) ==
    IF req[c].for = "safety"
    THEN Set(c, Over(req[c])) /\ UNCHANGED lock
    ELSE Answers(c, "error", req[c])

\* A failed create or record ends the request.  A failed safety snapshot does
\* not: the restore goes on and the warning says that there is none.
Refused(c) ==
    IF req[c].for = "safety"
    THEN Set(c, [Over(req[c]) EXCEPT !.said = Path]) /\ UNCHANGED lock
    ELSE Answers(c, "error", req[c])

CheckSources(c) ==
    /\ At(c, "begin")
    /\ IF req[c].cover \subseteq UsableOf(req[c].w)
       THEN Set(c, [req[c] EXCEPT !.pc = "take", !.left = req[c].cover]) /\ UNCHANGED lock
       ELSE Refused(c)
    /\ UNCHANGED <<tableVars, snaps, links, fileVars, requests, edits, faults>>

\* The paths are taken in the order of the workset.
InTurn(c, i) ==
    /\ At(c, "take") /\ i \in req[c].left
    /\ \A j \in req[c].left : i <= j

\* copy links the file; the others keep a file of their own.
TakePath(c) ==
    /\ \E i \in req[c].left :
          LET p == req[c].w.paths[i]
              own == live[p] > 0 /\ ~links
              file == IF own THEN Len(data) + 1 ELSE live[p]
          IN /\ InTurn(c, i) /\ Usable(p)
             /\ data' = IF own THEN Append(data, data[live[p]]) ELSE data
             /\ Set(c, [req[c] EXCEPT !.left = @ \ {i},
                                      !.src = Append(@, [path |-> p, file |-> file])])
    /\ UNCHANGED <<tableVars, lock, snaps, links, live, clock, fresh, spoilt,
                   requests, edits, faults>>

FailTake(c) ==
    /\ \E i \in req[c].left :
          /\ InTurn(c, i)
          /\ IF Usable(req[c].w.paths[i]) THEN Trips ELSE UNCHANGED faults
    /\ Refused(c)
    /\ UNCHANGED <<tableVars, snaps, links, fileVars, requests, edits>>

Stamp(file) == IF file > 0 THEN data[file] ELSE 0

\* Create has returned and the row is written.
PutSnapshot(c) ==
    /\ At(c, "take") /\ req[c].left = {}
    /\ snaps' = Append(snaps, [ws |-> req[c].w.id, src |-> req[c].src,
                               taken |-> [k \in DOMAIN req[c].src |-> Stamp(req[c].src[k].file)]])
    /\ IF req[c].for = "safety"
          THEN Set(c, [Over(req[c]) EXCEPT !.safe = Len(snaps) + 1]) /\ UNCHANGED lock
       ELSE Answers(c, "ok", req[c])
    /\ UNCHANGED <<tableVars, links, fileVars, requests, edits, faults>>

FailPut(c) ==
    /\ At(c, "take") /\ req[c].left = {}
    /\ Trips
    /\ Refused(c)
    /\ UNCHANGED <<tableVars, snaps, links, fileVars, requests, edits>>

-----------------------------------------------------------------------------
(***************************************************************************)
(* engine.Restore, over the sources of the handle and not the paths of the *)
(* workset, and the node that records it.                                  *)
(***************************************************************************)
Sources(c) == snaps[req[c].t].src

CheckDestinations(c) ==
    /\ At(c, "check")
    /\ IF \E k \in DOMAIN Sources(c) : live[Sources(c)[k].path] = Link
       THEN Answers(c, "error", req[c])
       ELSE Set(c, [req[c] EXCEPT !.pc = "swap", !.k = 1]) /\ UNCHANGED lock
    /\ UNCHANGED <<tableVars, snaps, links, fileVars, requests, edits, faults>>

\* What a write to p is to the restores under way.
Touch(p, r) ==
    [c \in Clients |->
        IF r[c].kind = "restore" /\ r[c].pc \notin {"lock", "ok"}
        THEN [r[c] EXCEPT !.touched = @ \union {p}] ELSE r[c]]

\* The path gets the file f, and f's content is stamped s.  Only the first
\* source of a path writes over what was there: a handle may hold it twice.
Swap(c, p, f, s) ==
    /\ live' = [live EXCEPT ![p] = f]
    /\ data' = IF f > Len(data) THEN Append(data, s) ELSE data
    /\ fresh' = [fresh EXCEPT ![p] = Len(snaps)]
    /\ LET again == \E j \in 1..(req[c].k - 1) : Sources(c)[j].path = p
           lost == IF live[p] > 0 /\ p \notin req[c].touched /\ ~again
                   THEN {<<p, data[live[p]]>>} ELSE {}
           mine == [req[c] EXCEPT !.k = @ + 1, !.touched = @ \ {p}, !.over = @ \union lost]
       IN req' = [Touch(p, req) EXCEPT ![c] = mine]

Restoring(c) == At(c, "swap") /\ req[c].k \in DOMAIN Sources(c)

\* Mutant of SwapPath: the tree is linked back, not copied.
SwapPathLinks(c) ==
    /\ Restoring(c)
    /\ LET s == Sources(c)[req[c].k] IN Swap(c, s.path, s.file, 0)
    /\ UNCHANGED <<tableVars, lock, snaps, links, clock, spoilt, requests, edits, faults>>

\* Mutant of SwapPath: the copy does not keep the time of the file.
SwapPathRestamps(c) ==
    /\ Restoring(c)
    /\ LET s == Sources(c)[req[c].k] IN
       Swap(c, s.path, IF s.file > 0 THEN Len(data) + 1 ELSE s.file, clock + 1)
    /\ clock' = clock + 1
    /\ UNCHANGED <<tableVars, lock, snaps, links, spoilt, requests, edits, faults>>

\* The bytes are copied, with their time: the path gets a file of its own.
SwapPath(c) ==
    /\ Restoring(c)
    /\ LET s == Sources(c)[req[c].k] IN
       Swap(c, s.path, IF s.file > 0 THEN Len(data) + 1 ELSE s.file, Stamp(s.file))
    /\ UNCHANGED <<tableVars, lock, snaps, links, clock, spoilt, requests, edits, faults>>

\* A swap that fails ends the request, the earlier paths swapped.
FailSwap(c) ==
    /\ Restoring(c)
    /\ Trips
    /\ Answers(c, "error", req[c])
    /\ UNCHANGED <<tableVars, snaps, links, fileVars, requests, edits>>

\* The restore has landed: the node covers what can be read now.
RecordRestore(c) ==
    /\ At(c, "swap") /\ req[c].k = Len(Sources(c)) + 1
    /\ LET u == UsableOf(req[c].w) IN
       IF u = {} THEN Answers(c, "error", req[c])
       ELSE /\ Set(c, [req[c] EXCEPT !.pc = "begin", !.for = "record", !.cover = u,
                                     !.said = @ \union SkippedOf(req[c].w)])
            /\ UNCHANGED lock
    /\ UNCHANGED <<tableVars, snaps, links, fileVars, requests, edits, faults>>

\* The client has its answer.
Done(c) ==
    /\ At(c, "ok")
    /\ Set(c, NoRequest)
    /\ UNCHANGED <<tableVars, lock, snaps, links, fileVars, requests, edits, faults>>

-----------------------------------------------------------------------------
(***************************************************************************)
(* The agent: it writes a file in place, writes a new file over the old    *)
(* one, empties the directory, removes it, or puts a symlink there.        *)
(***************************************************************************)
Edit(p) ==
    /\ edits < MaxEdits /\ requests > 0
    /\ edits' = edits + 1
    /\ req' = Touch(p, req)
    /\ UNCHANGED <<tableVars, lock, snaps, links, requests, faults>>

WriteInPlace(p) ==
    /\ live[p] > 0
    /\ Edit(p)
    /\ clock' = clock + 1
    /\ data' = [data EXCEPT ![live[p]] = clock + 1]
    /\ spoilt' = IF links THEN spoilt \union {<<s, p>> : s \in (fresh[p] + 1)..Len(snaps)}
                          ELSE spoilt
    /\ UNCHANGED <<live, fresh>>

WriteNew(p) ==
    /\ live[p] # Link
    /\ Edit(p)
    /\ clock' = clock + 1
    /\ data' = Append(data, clock + 1)
    /\ live' = [live EXCEPT ![p] = Len(data) + 1]
    /\ fresh' = [fresh EXCEPT ![p] = Len(snaps)]
    /\ UNCHANGED spoilt

TakeAway(p) ==
    /\ Edit(p)
    /\ \E what \in {Empty, Missing, Link} :
          /\ what # live[p]
          /\ what = Link => p # N
          /\ what = Empty => live[p] > 0
          /\ live' = [live EXCEPT ![p] = what]
    /\ UNCHANGED <<data, clock, fresh, spoilt>>

-----------------------------------------------------------------------------
\* The bounds are used up and no request is waiting for a lock.
Quiet == requests = MaxRequests /\ (\A c \in Clients : At(c, "idle")) /\ UNCHANGED vars

Next ==
    \/ Quiet
    \/ \E c \in Clients :
          \/ CreateWorkset(c) \/ PutWorkset(c) \/ RefuseWorkset(c)
          \/ CreateSnapshot(c) \/ Restore(c) \/ Lock(c) \/ SafetySnapshot(c)
          \/ CheckSources(c) \/ TakePath(c) \/ FailTake(c) \/ PutSnapshot(c) \/ FailPut(c)
          \/ CheckDestinations(c) \/ SwapPath(c) \/ FailSwap(c) \/ RecordRestore(c) \/ Done(c)
    \/ \E p \in Path : WriteInPlace(p) \/ WriteNew(p) \/ TakeAway(p)

Spec == Init /\ [][Next]_vars
-----------------------------------------------------------------------------
(***************************************************************************)
(* Diff of two handles: a list of the paths that came, that changed and    *)
(* that went, each sorted and cut at DiffCap.                              *)
(***************************************************************************)
PathsOf(s) == {snaps[s].src[k].path : k \in DOMAIN snaps[s].src}
FindSource(s, p) ==
    snaps[s].src[CHOOSE k \in DOMAIN snaps[s].src :
                    /\ snaps[s].src[k].path = p
                    /\ \A j \in 1..(k - 1) : snaps[s].src[j].path # p]

\* Sources of a handle as entries of a list: the path and where it was found.
Entries(s, found) == {[path |-> snaps[s].src[k].path, at |-> k] : k \in found}

\* A source of the later handle whose file came, changed or went, and one of
\* the earlier whose path the later does not have.
There(s) == s.file > 0
Came(from, s) == There(s) /\ (s.path \in PathsOf(from) => ~There(FindSource(from, s.path)))
Changed(from, s) ==
    /\ s.path \in PathsOf(from) /\ There(s) /\ There(FindSource(from, s.path))
    /\ Stamp(s.file) # Stamp(FindSource(from, s.path).file)
Went(from, s) == s.path \in PathsOf(from) /\ ~There(s) /\ There(FindSource(from, s.path))
Dropped(to, s) == s.path \notin PathsOf(to) /\ There(s)

DiffTree(from, to) ==
    LET later == snaps[to].src
        earlier == snaps[from].src
    IN [added |-> Entries(to, {k \in DOMAIN later : Came(from, later[k])}),
        modified |-> Entries(to, {k \in DOMAIN later : Changed(from, later[k])}),
        deleted |-> Entries(to, {k \in DOMAIN later : Went(from, later[k])})
                    \union Entries(from, {k \in DOMAIN earlier : Dropped(to, earlier[k])})]

\* Sorted: the i-th path of a list is that of the entry with i - 1 before it.
Earlier(x, y) == x.path < y.path \/ (x.path = y.path /\ x.at < y.at)
InOrder(list) ==
    [i \in 1..Cardinality(list) |->
        (CHOOSE x \in list : Cardinality({y \in list : Earlier(y, x)}) = i - 1).path]

Capped(list) ==
    SubSeq(InOrder(list), 1, IF Cardinality(list) > DiffCap THEN DiffCap ELSE Cardinality(list))

\* Mutant of CapPaths: the mark of an earlier list is forgotten.
CapPathsForgets(list, truncated) ==
    [list |-> Capped(list), truncated |-> Cardinality(list) > DiffCap]

CapPaths(list, truncated) ==
    [list |-> Capped(list), truncated |-> Cardinality(list) > DiffCap \/ truncated]

Diff(from, to) ==
    LET d == DiffTree(from, to)
        a == CapPaths(d.added, FALSE)
        m == CapPaths(d.modified, a.truncated)
        g == CapPaths(d.deleted, m.truncated)
    IN [added |-> a.list, modified |-> m.list, deleted |-> g.list, truncated |-> g.truncated]

-----------------------------------------------------------------------------
Row == [id : 0..ids, paths : Seq(Path), container : BOOLEAN]
Source == [path : Path, file : {Empty} \union 1..Len(data)]
Snapshot == [ws : 1..ids, src : Seq(Source), taken : Seq(0..clock)]
Request == [pc : {"idle", "put", "lock", "safety", "begin", "take", "check", "swap", "ok"},
            kind : {"none", "declare", "create", "restore"},
            for : {"none", "create", "safety", "record"},
            name : Names \union {""}, w : Row, t : 0..Len(snaps), cover : SUBSET Nat,
            left : SUBSET Nat, src : Seq(Source), k : Nat, safe : 0..Len(snaps),
            said : SUBSET Path, over : SUBSET (Path \X Nat), touched : SUBSET Path]

TypeOK ==
    /\ worksets \in [Names -> Row] /\ ids \in Nat
    /\ \A i \in DOMAIN lock : i \in 1..ids /\ lock[i] \in Clients
    /\ snaps \in Seq(Snapshot) /\ links \in BOOLEAN
    /\ data \in Seq(1..clock) /\ clock \in Nat
    /\ live \in [Path -> {Missing, Link, Empty} \union 1..Len(data)]
    /\ fresh \in [Path -> 0..Len(snaps)] /\ spoilt \subseteq Nat \X Path
    /\ req \in [Clients -> Request]
    /\ \A c \in Clients : At(c, "swap") => req[c].k \in 1..(Len(Sources(c)) + 1)
    /\ requests \in 0..MaxRequests /\ edits \in 0..MaxEdits /\ faults \in 0..MaxFaults

\* A snapshot holds a path with that stamp.
Holds(s, p, stamp) ==
    s # 0 /\ \E k \in DOMAIN snaps[s].src :
                snaps[s].src[k].path = p /\ snaps[s].taken[k] = stamp

\* Where a restore that answered wrote over a file of a path the workset
\* declared, the safety snapshot holds that file or the warning names the
\* path, whatever was missing, failed or was redeclared.
RestoreSavesOrSays ==
    \A c \in Clients : At(c, "ok") =>
        \A lost \in req[c].over :
            \/ Holds(req[c].safe, lost[1], lost[2])
            \/ lost[1] \in req[c].said
            \/ \A k \in DOMAIN req[c].w.paths : req[c].w.paths[k] # lost[1]

\* The same of every path: what the documents say of the warning.
WarningSaysWhatWasMissed ==
    \A c \in Clients : At(c, "ok") =>
        \A lost \in req[c].over :
            \/ Holds(req[c].safe, lost[1], lost[2]) \/ Holds(req[c].t, lost[1], lost[2])
            \/ lost[1] \in req[c].said

\* A snapshot holds what it held when it was taken, except where the copy
\* backend shares a file with the working set and the agent wrote that file
\* in place.  A file made later, by the agent or by a restore, is not shared
\* with an earlier snapshot.
SnapshotsKeepTheirContent ==
    \A s \in DOMAIN snaps : \A k \in DOMAIN snaps[s].src :
        \/ Stamp(snaps[s].src[k].file) = snaps[s].taken[k]
        \/ <<s, snaps[s].src[k].path>> \in spoilt

Distinct(s) == \A j, k \in DOMAIN snaps[s].src :
                    snaps[s].src[j].path = snaps[s].src[k].path => j = k

\* Diff finds a source of the path in the later handle that came, changed or went.
Differs(from, to, p) ==
    \E k \in DOMAIN snaps[to].src :
        LET s == snaps[to].src[k] IN
        s.path = p /\ (Came(from, s) \/ Changed(from, s) \/ Went(from, s))

\* The node that records a restore and the snapshot that was restored show no
\* difference in a path both cover, unless somebody else wrote it meanwhile:
\* the restore brings back the content and the time.
NodeRecordsTheRestore ==
    [][\A c \in Clients :
          (/\ At(c, "take") /\ req[c].for = "record" /\ At(c, "ok")'
           /\ Distinct(req[c].t)) =>
              \A node \in {Len(snaps')},
                 p \in ({req[c].w.paths[i] : i \in req[c].cover} \intersect PathsOf(req[c].t))
                         \ req[c].touched :
                  ~Differs(req[c].t, node, p)']_vars

\* A name keeps its identifier, and so its graph, however often and by
\* however many at once it is declared.
WorksetsKeepTheirGraph ==
    [][\A n \in Names : worksets[n].id # 0 => worksets'[n].id = worksets[n].id]_vars

\* What was taken of a path, 0 for no file.
Content(s, p) ==
    IF p \in PathsOf(s)
    THEN snaps[s].taken[CHOOSE k \in DOMAIN snaps[s].src : snaps[s].src[k].path = p]
    ELSE 0

DiffRight(f, t) ==
    (/\ Distinct(f) /\ Distinct(t)
     /\ \A p \in Path : <<f, p>> \notin spoilt /\ <<t, p>> \notin spoilt) =>
    LET d == Diff(f, t)
        true == [added |-> {p \in Path : Content(f, p) = 0 /\ Content(t, p) # 0},
                 modified |-> {p \in Path : /\ Content(f, p) # 0 /\ Content(t, p) # 0
                                            /\ Content(f, p) # Content(t, p)},
                 deleted |-> {p \in Path : Content(f, p) # 0 /\ Content(t, p) = 0}]
    IN /\ \A x \in DOMAIN true : ToSet(d[x]) \subseteq true[x]
       /\ d.truncated \/ \A x \in DOMAIN true : ToSet(d[x]) = true[x] /\ IsInjective(d[x])

\* Whatever the other clients are at, Diff tells a client how two snapshots
\* differed when they were taken, path by path, whatever paths each covers;
\* when a list is cut the answer says so.
DiffAnswers ==
    (\E c \in Clients : At(c, "idle")) =>
        \A f, t \in DOMAIN snaps : f # t => DiffRight(f, t)
=============================================================================
