------------------------------ MODULE HostTeams ------------------------------
(***************************************************************************)
(* Teams on the host: rocshmem_team_split_strided and _split_2d,           *)
(* rocshmem_team_destroy and rocshmem_finalize, and the collectives on     *)
(* streams that CollectiveLauncher runs with one duplicate team per        *)
(* workgroup.                                                              *)
(*                                                                         *)
(* A team owns one index of a pool: the synchronisation words every member *)
(* uses for it.  The members agree on a free index by an all-reduce of     *)
(* their bit masks.  Indices are used again when a team is destroyed, so   *)
(* what matters is that a new team's kernels never meet the words of an    *)
(* old one.  A kernel is the barrier of its team: members raise a word on  *)
(* the team's first PE, which clears them and raises one word on each      *)
(* member.                                                                 *)
(***************************************************************************)
EXTENDS Integers, Sequences, FiniteSets, SequencesExt, FiniteSetsExt, Functions

CONSTANTS
  N,            \* number of PEs
  Clears,       \* GDA: a new team's words are cleared, then a barrier
  Mpi,          \* an MPI communicator is split and duplicated
  MaxTeams,     \* max_num_teams
  Streams       \* streams of a PE

PEs == 0 .. N - 1
Reserved == 2                     \* NUM_RESERVED_TEAMS
Indices == 0 .. MaxTeams - 1

VARIABLES
  calls,        \* the program: the same calls on every PE
  host,         \* host[p]: the host thread and the tables of PE p
  said, heard,  \* what the PEs bring to, and take from, a collective
  word,         \* word[p][i][q]: the word q raises on p for index i
  stream        \* stream[p][s]: the kernels in stream s of PE p

vars == <<calls, host, said, heard, word, stream>>

INVALID == [uid |-> "invalid"]
Nothing == <<>>
World == [uid |-> <<"world">>, pe_start |-> 0, stride |-> 1, num_pes |-> N, index |-> 0]
EmptyMap == [x \in {} |-> x]

(***************************************************************************)
(* Translations between a team and the world.                              *)
(***************************************************************************)
get_pe_in_world(t, i) == t.pe_start + t.stride * i

Members(t) == {get_pe_in_world(t, i) : i \in 0 .. t.num_pes - 1}

get_pe_in_my_team(t, pe) ==
  IF pe < t.pe_start \/ (pe - t.pe_start) % t.stride # 0
       \/ (pe - t.pe_start) \div t.stride >= t.num_pes
  THEN -1 ELSE (pe - t.pe_start) \div t.stride

team_translate_pe(src, pe, dst) ==
  IF src = INVALID \/ dst = INVALID THEN -1
  ELSE get_pe_in_my_team(dst, get_pe_in_world(src, pe))

pe_in_active_set(start, stride, size, pe) ==
  IF pe < start \/ (pe - start) % stride # 0 \/ (pe - start) \div stride >= size
  THEN -1 ELSE (pe - start) \div stride

(***************************************************************************)
(* State of a PE's host.                                                   *)
(***************************************************************************)
InitialHost ==
  [ at |-> 0, pc |-> "idle",
    todo |-> <<>>,                 \* team splits left in the current call
    name |-> <<>>,                 \* the team being split
    team |-> INVALID,              \* and what it will be
    teams |-> EmptyMap,            \* handles the program or the launcher holds
    pool |-> Indices \ {0, 1},     \* team_pool_bitmask_
    tracked |-> {},                \* team_tracker
    wgs |-> EmptyMap,              \* resources_map: parent -> ParallelResources
    results |-> <<>> ]

Init(programs) ==
  /\ calls \in programs
  /\ host = [p \in PEs |-> InitialHost]
  /\ said = [p \in PEs |-> Nothing]
  /\ heard = [p \in PEs |-> Nothing]
  /\ word = [p \in PEs |-> [i \in Indices |-> [q \in PEs |-> Nothing]]]
  /\ stream = [p \in PEs |-> [s \in Streams |-> <<>>]]

Put(f, x, v) == [y \in DOMAIN f \cup {x} |-> IF y = x THEN v ELSE f[y]]
With(h, r) == [f \in DOMAIN h |-> IF f \in DOMAIN r THEN r[f] ELSE h[f]]
Set(p, h) == host' = [host EXCEPT ![p] = h]

TeamOf(h, n) == IF n = <<"world">> THEN World
                ELSE IF n \in DOMAIN h.teams THEN h.teams[n] ELSE INVALID

(* A collective of the PEs in `group`: p waits with v, and all leave it     *)
(* with what they brought.                                                  *)
Enter(p, kind, group, v) ==
  /\ said' = [said EXCEPT ![p] = <<kind, group, v>>]
  /\ heard' = [heard EXCEPT ![p] = Nothing]
Quiet(p) == said' = said /\ heard' = [heard EXCEPT ![p] = Nothing]

Complete(group, kind) ==
  /\ \A q \in group : said[q] # Nothing /\ said[q][1] = kind /\ said[q][2] = group
  /\ heard' = [p \in PEs |-> IF p \in group THEN <<[q \in group |-> said[q][3]]>> ELSE heard[p]]
  /\ said' = [p \in PEs |-> IF p \in group THEN Nothing ELSE said[p]]
  /\ UNCHANGED <<calls, host, word, stream>>

GroupCollective ==
  \E p \in PEs : said[p] # Nothing /\ Complete(said[p][2], said[p][1])

(***************************************************************************)
(* rocshmem_team_split_strided, one step for each collective in it.        *)
(***************************************************************************)
(* The split at the head of `todo` returned `status`: a failure ends the    *)
(* call, and the launcher then destroys the duplicates made so far.         *)
ReturnStatus(h, status) ==
  With(h, [pc |-> "split", team |-> INVALID, name |-> <<>>,
           todo |-> IF status = 0 THEN Tail(h.todo) ELSE <<[op |-> "failed"]>>])

SplitStatus(p, c) ==
  LET h == host[p]
      parent == TeamOf(h, c.parent)
      start == get_pe_in_world(parent, c.start)
      stride == c.stride * parent.stride
  IN  IF Cardinality(h.tracked) >= MaxTeams - Reserved THEN -1
      ELSE IF parent = INVALID THEN 0
      ELSE IF \/ c.start < 0 \/ c.start >= parent.num_pes
              \/ c.size < 1 \/ c.size > parent.num_pes \/ c.stride < 1 THEN -1
      ELSE IF start + stride * (c.size - 1) > N THEN -1
      ELSE 1

SplitStart(p) ==
  LET h == host[p]
      c == Head(h.todo)
      parent == TeamOf(h, c.parent)
      t == [uid |-> <<h.at, c.as, c.start>>, pe_start |-> get_pe_in_world(parent, c.start),
            stride |-> c.stride * parent.stride, num_pes |-> c.size, index |-> -1]
      me == pe_in_active_set(t.pe_start, t.stride, t.num_pes, p)
  IN  /\ h.pc = "split" /\ h.todo # <<>> /\ Head(h.todo).op = "split"
      /\ IF SplitStatus(p, c) < 1
         THEN Set(p, ReturnStatus(h, SplitStatus(p, c))) /\ Quiet(p)
         ELSE IF Mpi
         THEN /\ Set(p, With(h, [pc |-> "comm_split", team |-> t, name |-> c.as]))
              /\ Enter(p, "comm_split", Members(parent), me)
         ELSE IF me < 0 THEN Set(p, ReturnStatus(h, 0)) /\ Quiet(p)
         ELSE /\ Set(p, With(h, [pc |-> "allreduce", team |-> t, name |-> c.as]))
              /\ Enter(p, "allreduce", Members(t), h.pool)
      /\ UNCHANGED <<calls, word, stream>>

CommSplit(p) ==
  LET h == host[p]
  IN  /\ h.pc = "comm_split" /\ heard[p] # Nothing
      /\ IF heard[p][1][p] < 0
         THEN Set(p, ReturnStatus(h, 0)) /\ Quiet(p)
         ELSE /\ Set(p, With(h, [pc |-> "allreduce"]))
              /\ Enter(p, "allreduce", {q \in DOMAIN heard[p][1] : heard[p][1][q] >= 0}, h.pool)
      /\ UNCHANGED <<calls, word, stream>>

(* *new_team is returned and tracked *)
Created(h, t) ==
  ReturnStatus(With(h, [teams |-> Put(h.teams, h.name, t),
                        tracked |-> h.tracked \cup {h.name}]), 0)

(* The lowest index free on every member; none ends the program *)
get_ls_non_zero_bit(masks) ==
  LET common == {i \in Indices : \A q \in DOMAIN masks : i \in masks[q]}
  IN  IF common = {} THEN -1 ELSE Min(common)

create_new_team(p) ==
  LET h == host[p]
      index == get_ls_non_zero_bit(heard[p][1])
      t == [h.team EXCEPT !.index = index]
      taken == With(h, [pool |-> h.pool \ {index}, team |-> t])
  IN  /\ h.pc = "allreduce" /\ heard[p] # Nothing
      /\ IF index < 0 THEN Set(p, With(h, [pc |-> "aborted"])) /\ Quiet(p)
         ELSE IF Mpi \/ Clears
         THEN /\ Set(p, With(taken, [pc |-> IF Mpi THEN "dup" ELSE "clear"]))
              /\ IF Mpi THEN Enter(p, "dup", Members(t), 0) ELSE Quiet(p)
         ELSE Set(p, Created(taken, t)) /\ Quiet(p)
      /\ UNCHANGED <<calls, word, stream>>

(* MPI_Comm_dup in the constructor of Team *)
CommDup(p) ==
  LET h == host[p]
  IN  /\ h.pc = "dup" /\ heard[p] # Nothing
      /\ Set(p, IF Clears THEN With(h, [pc |-> "clear"]) ELSE Created(h, h.team))
      /\ Quiet(p)
      /\ UNCHANGED <<calls, word, stream>>

(* The constructor of GDATeam clears the words, then the members meet. *)
GDATeamClear(p) ==
  LET h == host[p]
  IN  /\ h.pc = "clear"
      /\ word' = [word EXCEPT ![p][h.team.index] = [q \in PEs |-> Nothing]]
      /\ Set(p, With(h, [pc |-> "barrier"]))
      /\ Enter(p, "barrier", Members(h.team), 0)
      /\ UNCHANGED <<calls, stream>>

GDATeamReady(p) ==
  LET h == host[p]
  IN  /\ h.pc = "barrier" /\ heard[p] # Nothing
      /\ Set(p, Created(h, h.team)) /\ Quiet(p)
      /\ UNCHANGED <<calls, word, stream>>

(***************************************************************************)
(* The program's calls.                                                    *)
(***************************************************************************)
Split(parent, start, stride, size, as) ==
  [op |-> "split", parent |-> parent, start |-> start, stride |-> stride,
   size |-> size, as |-> as]

(* The splits of rocshmem_team_split_2d: rows, then columns *)
split_2d(size, parent, xrange, x, y) ==
  LET xr == IF xrange > size THEN size ELSE xrange
      rest == size % xr
      xteams == (size + xr - 1) \div xr
  IN  [i \in 1 .. xteams |->
         Split(parent, (i - 1) * xr, 1, IF i = xteams /\ rest # 0 THEN rest ELSE xr, x)]
      \o [i \in 1 .. xr |->
         Split(parent, i - 1, xr, (size \div xr) + (IF i - 1 < rest THEN 1 ELSE 0), y)]

NoResources == [teams |-> <<>>, uploaded |-> <<>>, failed |-> FALSE, last |-> 0]
Resources(h, n) == IF n \in DOMAIN h.wgs THEN h.wgs[n] ELSE NoResources

(* A kernel of team n in call k has left its stream *)
Completed(p, k) == \A s \in Streams : \A j \in DOMAIN stream[p][s] : stream[p][s][j].call # k
hipDeviceSynchronize(p) == \A s \in Streams : stream[p][s] = <<>>

(* team_tracker.untrack and team_destroy for a set of handles *)
DestroyTeams(h, names) ==
  With(h, [teams |-> Restrict(h.teams, DOMAIN h.teams \ names),
           tracked |-> h.tracked \ names,
           pool |-> h.pool \cup {h.teams[n].index : n \in names}])

Children(h, n) == Range(Resources(h, n).teams)

(* ReleaseAtOnce is MayRelease without hipDeviceSynchronize. *)
ReleaseAtOnce(p, n) == TRUE

(* release_team: the duplicates go with their parent, after the device *)
MayRelease(p, n) == n \in DOMAIN host[p].wgs => hipDeviceSynchronize(p)
release_team(h, n) ==
  With(DestroyTeams(h, Children(h, n)), [wgs |-> Restrict(h.wgs, DOMAIN h.wgs \ {n})])

rocshmem_team_destroy(h, n) ==
  IF TeamOf(h, n) = INVALID THEN h ELSE DestroyTeams(release_team(h, n), {n})

(* release_all and destroy_all of rocshmem_finalize *)
MayFinalize(p) == host[p].wgs # EmptyMap => hipDeviceSynchronize(p)
rocshmem_finalize(h) ==
  With(DestroyTeams(h, h.tracked), [wgs |-> EmptyMap])

Returns(h, r) ==
  With(h, [pc |-> "idle", todo |-> <<>>, results |-> Append(h.results, r)])

(* enqueue_multi_wg: whether the duplicates for n workgroups must be made,  *)
(* and whether a capturing stream or an earlier failure forbids it          *)
Missing(r, n) == Len(r.teams) < n \/ Len(r.uploaded) < n
SingleWg(r, c) == c.wgs <= 1 \/ (c.capture /\ Missing(r, c.wgs)) \/ r.failed

(* ensure_wg_teams drains the previous launch before it adds duplicates. *)
MayLaunch(p, c) ==
  LET r == Resources(host[p], c.team)
  IN  (~ SingleWg(r, c) /\ Len(r.teams) < c.wgs /\ r.teams # <<>> /\ r.last # 0)
        => Completed(p, r.last)

Launch(h, c) ==
  LET r == Resources(h, c.team)
      size == TeamOf(h, c.team).num_pes
      g == With(h, [wgs |-> Put(h.wgs, c.team, r), pc |-> "split"])
      made == Len(r.teams)
  IN  With(g, [todo |->
        (IF SingleWg(r, c) THEN <<>>
         ELSE [i \in 1 .. (IF made < c.wgs THEN c.wgs - made ELSE 0) |->
                 Split(c.team, 0, 1, size, <<"child", c.team, made + i>>)])
        \o <<[op |-> "enqueue"]>>])

Calls(p, c) ==
  LET h == [host[p] EXCEPT !.at = @ + 1]
  IN  CASE c.op = "split" -> Set(p, With(h, [pc |-> "split", todo |-> <<c>>]))
        [] c.op = "split_2d" ->
             LET parent == TeamOf(h, c.parent)
             IN  Set(p, IF parent = INVALID \/ c.xrange < 1 THEN Returns(h, "error")
                        ELSE With(h, [pc |-> "split", todo |->
                               split_2d(parent.num_pes, c.parent, c.xrange, c.x, c.y)]))
        [] c.op = "destroy" ->
             MayRelease(p, c.team) /\ Set(p, Returns(rocshmem_team_destroy(h, c.team), "ok"))
        [] c.op = "launch" ->
             IF TeamOf(h, c.team) = INVALID THEN Set(p, Returns(h, "not called"))
             ELSE MayLaunch(p, c) /\ Set(p, Launch(h, c))
        [] c.op = "finalize" ->
             MayFinalize(p) /\ Set(p, Returns(rocshmem_finalize(h), "ok"))

Begin(p) ==
  /\ host[p].pc = "idle" /\ host[p].at < Len(calls)
  /\ Calls(p, calls[host[p].at + 1])
  /\ UNCHANGED <<calls, said, heard, word, stream>>

(* The last split of the call has returned *)
EndSplits(p) ==
  LET h == host[p]
  IN  /\ h.pc = "split"
      /\ h.todo # <<>> => (Head(h.todo).op = "failed" /\ calls[h.at].op # "launch")
      /\ Set(p, Returns(h, IF h.todo = <<>> THEN "ok" ELSE "error"))
      /\ UNCHANGED <<calls, said, heard, word, stream>>

(* A duplicate could not be made: those that exist are destroyed and this   *)
(* team's collectives use one workgroup from now on.                        *)
DropDuplicates(p) ==
  LET h == host[p]
      n == calls[h.at].team
      made == {m \in DOMAIN h.teams : m[1] = "child" /\ m[2] = n}
  IN  /\ h.pc = "split" /\ h.todo # <<>> /\ Head(h.todo).op = "failed"
      /\ calls[h.at].op = "launch"
      /\ Set(p, With(DestroyTeams(h, made),
                 [wgs |-> Put(h.wgs, n, [h.wgs[n] EXCEPT !.teams = <<>>, !.uploaded = <<>>,
                                                         !.failed = TRUE]),
                  todo |-> <<[op |-> "enqueue"]>>]))
      /\ UNCHANGED <<calls, said, heard, word, stream>>

(* The kernel is put into the stream, behind the team's previous one; its   *)
(* event is what the next one waits for.                                    *)
Enqueue(p) ==
  LET h == host[p]
      c == calls[h.at]
      r == h.wgs[c.team]
      multi == ~ SingleWg(r, c)
      names == [i \in 1 .. c.wgs |-> <<"child", c.team, i>>]
      k == [call |-> h.at, team |-> c.team, wgs |-> IF multi THEN c.wgs ELSE 0,
            after |-> r.last, pc |-> "queued", uses |-> <<>>]
  IN  /\ h.pc = "split" /\ h.todo # <<>> /\ Head(h.todo).op = "enqueue"
      /\ stream' = [stream EXCEPT ![p][c.stream] = Append(@, k)]
      /\ Set(p, Returns(With(h, [wgs |-> Put(h.wgs, c.team,
              [r EXCEPT !.last = h.at,
                        !.teams = IF multi /\ Len(@) < c.wgs THEN names ELSE @,
                        !.uploaded = IF multi /\ Len(@) < c.wgs THEN names ELSE @])]), "ok"))
      /\ UNCHANGED <<calls, said, heard, word>>

(***************************************************************************)
(* The kernels.                                                            *)
(***************************************************************************)
Kernel(p, s) == stream[p][s][1]
Tag(t, k) == <<t.uid, k.call>>

(* The handles a kernel dereferences: its team, or the uploaded duplicates *)
Handles(p, k) == IF k.wgs = 0 THEN <<k.team>>
                 ELSE SubSeq(Resources(host[p], k.team).uploaded, 1, k.wgs)

SetKernel(p, s, k) == stream' = [stream EXCEPT ![p][s][1] = k]
Finish(p, s) == stream' = [stream EXCEPT ![p][s] = Tail(@)]

Fault(p, s, k) == SetKernel(p, s, [k EXCEPT !.pc = "fault"]) /\ UNCHANGED word

(* word raised by p on the PE `at`, for each team in ts *)
Raise(at, p, ts, k) ==
  [i \in Indices |-> IF \E t \in Range(ts) : t.index = i
     THEN [word[at][i] EXCEPT ![p] = Tag(CHOOSE t \in Range(ts) : t.index = i, k)]
     ELSE word[at][i]]

IsClear(at, p, ts) == \A t \in Range(ts) : word[at][t.index][p] = Nothing

KernelStart(p, s) ==
  LET k == Kernel(p, s)
      ts == [i \in DOMAIN Handles(p, k) |-> TeamOf(host[p], Handles(p, k)[i])]
      root == get_pe_in_world(ts[1], 0)
      g == [k EXCEPT !.pc = "arrived", !.uses = ts]
  IN  /\ stream[p][s] # <<>> /\ k.pc = "queued" /\ Completed(p, k.after)
      /\ IF INVALID \in Range(ts) \/ Len(ts) = 0 THEN Fault(p, s, k)
         ELSE IF p = root THEN SetKernel(p, s, g) /\ UNCHANGED word
         ELSE IF ~ IsClear(root, p, ts) THEN Fault(p, s, k)
         ELSE /\ SetKernel(p, s, g)
              /\ word' = [word EXCEPT ![root] = Raise(root, p, ts, k)]
      /\ UNCHANGED <<calls, host, said, heard>>

(* The words a PE waits for: the members' on the root, the root's elsewhere *)
Awaited(p, ts) ==
  LET root == get_pe_in_world(ts[1], 0)
  IN  IF p = root THEN Members(ts[1]) \ {p} ELSE {root}

KernelEnd(p, s) ==
  LET k == Kernel(p, s)
      ts == k.uses
      root == get_pe_in_world(ts[1], 0)
      from == Awaited(p, ts)
      own == [i \in Indices |-> [q \in PEs |->
                IF q \in from /\ \E t \in Range(ts) : t.index = i
                THEN Nothing ELSE word[p][i][q]]]
  IN  /\ stream[p][s] # <<>> /\ k.pc = "arrived"
      /\ \A q \in from, t \in Range(ts) : word[p][t.index][q] # Nothing
      /\ IF \/ \E q \in from, t \in Range(ts) : word[p][t.index][q] # Tag(t, k)
            \/ \E t \in Range(ts) : t \notin Range(host[p].teams) \cup {World}
            \/ p = root /\ \E q \in from : ~ IsClear(q, p, ts)
         THEN Fault(p, s, k)
         ELSE /\ Finish(p, s)
              /\ word' = [q \in PEs |-> IF q = p THEN own
                            ELSE IF p = root /\ q \in from THEN Raise(q, p, ts, k)
                            ELSE word[q]]
      /\ UNCHANGED <<calls, host, said, heard>>

Host(p) ==
  \/ Begin(p) \/ SplitStart(p) \/ CommSplit(p) \/ create_new_team(p) \/ CommDup(p)
  \/ GDATeamClear(p) \/ GDATeamReady(p) \/ EndSplits(p) \/ DropDuplicates(p) \/ Enqueue(p)

Device(p) == \E s \in Streams : KernelStart(p, s) \/ KernelEnd(p, s)

Next == GroupCollective \/ \E p \in PEs : Host(p) \/ Device(p)

(***************************************************************************)
(* Properties.                                                             *)
(***************************************************************************)
(* PE q has returned from the call that made the team with this uid *)
PastCall(q, uid) == host[q].pc = "idle" /\ host[q].at >= uid[1]

(* The members of a team describe it alike: they hold the same index, start,*)
(* stride and size, each knows its own rank, the live teams of a PE never   *)
(* share an index, and an index is in the pool exactly when no live team of *)
(* that PE has it.                                                          *)
TeamsAreExact ==
  /\ \A p, q \in PEs : \A n \in DOMAIN host[p].teams :
       LET t == host[p].teams[n]
       IN  /\ n \in DOMAIN host[q].teams /\ host[q].teams[n].uid = t.uid
                => host[q].teams[n] = t
           /\ q \in Members(t) /\ host[q].at = host[p].at /\ PastCall(q, t.uid) /\ PastCall(p, t.uid)
                => n \in DOMAIN host[q].teams
  /\ \A p \in PEs :
       LET h == host[p]
           held == {h.teams[n].index : n \in DOMAIN h.teams}
           pending == IF h.team = INVALID THEN {} ELSE {h.team.index} \ {-1}
       IN  /\ Cardinality(held) = Cardinality(DOMAIN h.teams)
           /\ h.pool = (Indices \ {0, 1}) \ (held \cup pending)
           /\ h.tracked = DOMAIN h.teams
           /\ \A n \in DOMAIN h.teams :
                LET t == h.teams[n]
                    me == get_pe_in_my_team(t, p)
                IN  me >= 0 /\ team_translate_pe(t, me, World) = p
                      /\ team_translate_pe(World, p, t) = me

(* rocshmem_team_split_2d puts every PE of the parent into one row and one  *)
(* column, at the coordinates of its rank in the parent.                    *)
RowsAndColumns ==
  \A p \in PEs : \A i \in DOMAIN host[p].results :
    LET c == calls[i]
        parent == TeamOf(host[p], c.parent)
    IN  (c.op = "split_2d" /\ host[p].pc = "idle" /\ host[p].at = i
           /\ parent # INVALID /\ host[p].results[i] = "ok") =>
          LET me == get_pe_in_my_team(parent, p)
              xr == IF c.xrange > parent.num_pes THEN parent.num_pes ELSE c.xrange
          IN  /\ get_pe_in_my_team(TeamOf(host[p], c.x), p) = me % xr
              /\ get_pe_in_my_team(TeamOf(host[p], c.y), p) = me \div xr

(* A kernel on a stream uses only teams that live until it ends, never      *)
(* raises a word that is still up, and meets only the kernels of the same   *)
(* collective call of its own team, although teams, their indices and the   *)
(* launcher's duplicates are destroyed and used again.                      *)
KernelsMeetTheirOwn ==
  \A p \in PEs, s \in Streams : \A k \in DOMAIN stream[p][s] : stream[p][s][k].pc # "fault"

(* What a host or a stream waits for *)
HostWaits(p) ==
  LET h == host[p]
      c == calls[h.at + 1]
  IN  \/ h.pc = "idle" /\ h.at = Len(calls)
      \/ said[p] # Nothing
      \/ h.pc = "idle" /\ \/ c.op = "destroy" /\ ~ MayRelease(p, c.team)
                          \/ c.op = "launch" /\ TeamOf(h, c.team) # INVALID /\ ~ MayLaunch(p, c)
                          \/ c.op = "finalize" /\ ~ MayFinalize(p)

StreamWaits(p, s) ==
  LET k == Kernel(p, s)
  IN  \/ stream[p][s] = <<>>
      \/ k.pc = "queued" /\ ~ Completed(p, k.after)
      \/ k.pc = "arrived" /\ \E q \in Awaited(p, k.uses), t \in Range(k.uses) :
                               word[p][t.index][q] = Nothing
      \/ k.pc = "fault"

(* The program ends: the calls return on every PE and the streams run dry,  *)
(* unless the members of a new team had no free index in common.            *)
TeamsProgress ==
  \/ \E p \in PEs : host[p].pc = "aborted"
  \/ \E p \in PEs : said[p] # Nothing
       /\ \A q \in said[p][2] : said[q] # Nothing /\ SubSeq(said[q], 1, 2) = SubSeq(said[p], 1, 2)
  \/ \E p \in PEs : ~ HostWaits(p) \/ \E s \in Streams : ~ StreamWaits(p, s)
  \/ \A p \in PEs : host[p].pc = "idle" /\ host[p].at = Len(calls) /\ hipDeviceSynchronize(p)

(* The three above: teams and their resources agree on all members, a 2-D  *)
(* split gives rows and columns, and an on-stream kernel only meets the    *)
(* kernels of its own collective.                                          *)
TeamsAreSound == TeamsAreExact /\ RowsAndColumns /\ KernelsMeetTheirOwn
=============================================================================
