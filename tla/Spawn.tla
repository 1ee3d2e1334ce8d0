------------------------------- MODULE Spawn -------------------------------
(***************************************************************************)
(* src/pspawn.c: a client says which descriptors a child is to have, the   *)
(* parent makes the pipes and forks, the child moves everything into place *)
(* one dup2 after another and calls execve; a pipe tells the parent        *)
(* whether that worked.  After the fork parent and child run on their own, *)
(* each with a table of descriptors and a copy of the entries.             *)
(*                                                                         *)
(* A description is <<"old", n>> (what the client had open as n), the      *)
(* <<"local", i>> and <<"remote", i>> ends of the pipe of entry i,         *)
(* <<"file", i>>, or an end of the pipe that tells.  spoiled becomes TRUE  *)
(* when the child overwrites or closes what it still needs.                *)
(***************************************************************************)
EXTENDS Integers, FiniteSets, SequencesExt

CONSTANTS
  MaxFds,          \* CAT_PS_MAXFDS
  Opens,           \* which descriptors the client may have open
  Pipes,           \* << direction, with a FILE >> of the pipes asked for
  Targets,         \* the descriptors asked for in the child
  MaxEntries,      \* bounds on the entries of a specification,
  MaxTargets,      \* and on all their targets
  IgnoreSigcld     \* ps_ignore_sigcld was called

Fds == 0 .. (MaxFds - 1)

ASSUME SpawnAssumption ==
  /\ MaxFds \in Nat /\ Opens \subseteq SUBSET Fds /\ Targets \subseteq Int
  /\ Pipes \subseteq {"in", "out", "inout"} \X BOOLEAN
  /\ MaxEntries \in Nat /\ MaxTargets \in Nat /\ IgnoreSigcld \in BOOLEAN

VARIABLES
  open,       \* what the client had open
  spec,       \* the client's ps_spec: a sequence of entries
  at,         \* where the client is
  ps, k,      \* ps->spec of the parent, and the entry create_pipes and so on are at
  ptab, ret,  \* the parent's table, and retpipe
  told,       \* an errno is in the pipe that tells
  broken,     \* which side could not use that pipe: "read", "write"
  cat,        \* where the child is
  cps, i, j,  \* ps->spec of the child, the entry and the target it is at
  nomap,      \* of set_up_fds
  ctab, cret, \* the child's table, and its retpipe[1]
  cloexec,    \* the child's descriptors that execve closes
  pipefds,    \* the bit set of set_up_fds
  spoiled

childVars == <<cat, cps, i, j, nomap, ctab, cret, cloexec, pipefds, spoiled>>
parentVars == <<ps, k, ptab, ret>>
pipeVars == <<told, broken>>
vars == <<open, spec, at, parentVars, pipeVars, childVars>>

-----------------------------------------------------------------------------
(* The table of descriptors of a process, as the kernel keeps it: each     *)
(* number has an open file description or Closed, and what is opened gets  *)
(* the lowest free number.                                                 *)

Closed == << >>

unused(tab) == { n \in DOMAIN tab : tab[n] = Closed }

lowest(tab) == CHOOSE n \in unused(tab) : \A m \in unused(tab) : n <= m

\* open, and dup, of description d.
opened(tab, d) == [tab EXCEPT ![lowest(tab)] = d]

\* close of several.  close(-1) changes nothing.
closed(tab, S) == [n \in DOMAIN tab |-> IF n \in S THEN Closed ELSE tab[n]]

-----------------------------------------------------------------------------

RetR == << "ret", 0 >>
RetW == << "ret", 1 >>

Old == [n \in Fds |-> IF n \in open THEN << "old", n >> ELSE Closed]

Init ==
  /\ open \in Opens
  /\ spec = << >> /\ at = "build" /\ ps = << >> /\ k = 1
  /\ ptab = Old /\ ret = << -1, -1 >> /\ told = FALSE /\ broken = {}
  /\ cat = "none" /\ cps = << >> /\ i = 1 /\ j = 1 /\ nomap = FALSE
  /\ ctab = [n \in Fds |-> Closed] /\ cret = -1 /\ cloexec = {} /\ pipefds = {}
  /\ spoiled = FALSE

-----------------------------------------------------------------------------
(* The client says what it wants. *)

Building == at = "build" /\ UNCHANGED <<open, at, parentVars, pipeVars, childVars>>

\* ps_spec_newfde, and what its callers set: path says whether there is one.
newfde(type, stdio, pipefd, path, remfds) ==
  /\ Building /\ Len(spec) < MaxEntries
  /\ spec' = Append(spec, [file |-> FALSE, locfd |-> -1, path |-> path, pipefd |-> pipefd,
                           remfds |-> remfds, stdio |-> stdio, type |-> type])

ps_spec_add_pipe == \E p \in Pipes : newfde(p[1], p[2], -1, FALSE, << >>)
ps_spec_add_fsrdr == newfde("file", FALSE, -1, TRUE, << >>)
ps_spec_add_remap == \E fd \in open : newfde("remap", FALSE, fd, FALSE, << >>)
ps_spec_keepfd == \E fd \in open : newfde("remap", FALSE, fd, FALSE, << fd >>)

AllTargets(s) == UNION { { << e, t >> : t \in DOMAIN s[e].remfds } : e \in DOMAIN s }

ps_fde_addfd(e, fd) ==
  /\ Building /\ Cardinality(AllTargets(spec)) < MaxTargets
  /\ spec' = [spec EXCEPT ![e].remfds = Append(@, fd)]

ps_fde_delfd(e, fd) ==
  Building /\ spec' = [spec EXCEPT ![e].remfds = SelectSeq(@, LAMBDA t : t # fd)]

ps_spec_del_fde(e) == Building /\ spec' = RemoveAt(spec, e)

-----------------------------------------------------------------------------
(* ps_launch in the parent. *)

\* Every entry has a target, and no descriptor is the target of two.
spec_ok(s) ==
  /\ \A e \in DOMAIN s : s[e].remfds \in Seq(Fds) \ {<< >>}
  /\ \A a, b \in AllTargets(s) : s[a[1]].remfds[a[2]] = s[b[1]].remfds[b[2]] => a = b

\* Two ends get the two lowest numbers.
pipe(tab, r, w) == opened(opened(tab, r), w)
pipe_fds(tab) == LET r == lowest(tab) IN << r, lowest(opened(tab, RetR)) >>
PipeFits(tab) == Cardinality(unused(tab)) >= 2

\* The copy has no path.
ps_spec_copy(s) == [e \in DOMAIN s |-> [s[e] EXCEPT !.path = FALSE]]

\* The copy of the specification and the pipe that tells.
Launch ==
  /\ at = "build"
  /\ \/ /\ spec_ok(spec) /\ PipeFits(ptab)
        /\ at' = "pipes" /\ ps' = ps_spec_copy(spec) /\ k' = 1
        /\ ptab' = pipe(ptab, RetR, RetW) /\ ret' = pipe_fds(ptab)
     \/ at' = "failed" /\ UNCHANGED parentVars
  /\ UNCHANGED <<open, spec, pipeVars, childVars>>

Fail == at' = "err" /\ UNCHANGED parentVars

\* create_pipes, at entry k.
CreatePipe ==
  /\ at = "pipes" /\ k <= Len(ps)
  /\ UNCHANGED <<open, spec, pipeVars, childVars>>
  /\ IF ps[k].type \in {"remap", "file"}
     THEN k' = k + 1 /\ UNCHANGED <<at, ps, ptab, ret>>
     ELSE \/ Fail
          \/ LET fds  == pipe_fds(ptab)
                 down == ps[k].type = "in"
                 r    == << IF down THEN "remote" ELSE "local", k >>
                 w    == << IF down THEN "local" ELSE "remote", k >>
             IN  /\ PipeFits(ptab)
                 /\ ptab' = pipe(ptab, r, w)
                 /\ ps' = [ps EXCEPT ![k].pipefd = IF down THEN fds[1] ELSE fds[2],
                                     ![k].locfd  = IF down THEN fds[2] ELSE fds[1]]
                 /\ k' = k + 1 /\ UNCHANGED <<at, ret>>

PipesCreated ==
  /\ at = "pipes" /\ k > Len(ps)
  /\ at' = "stdio" /\ k' = 1
  /\ UNCHANGED <<open, spec, ps, ptab, ret, pipeVars, childVars>>

\* open_stdio_files, at entry k.
OpenStdio ==
  /\ at = "stdio" /\ k <= Len(ps)
  /\ UNCHANGED <<open, spec, pipeVars, childVars>>
  /\ \/ ps[k].stdio /\ Fail
     \/ /\ ps' = [ps EXCEPT ![k].file = ps[k].stdio]
        /\ k' = k + 1 /\ UNCHANGED <<at, ptab, ret>>

\* Fault: the parent keeps its end to write to.
KeepsWriteEnd == ptab

\* The parent closes the end to write to.
parent_side == closed(ptab, {ret[2]})

Fork ==
  /\ at = "stdio" /\ k > Len(ps)
  /\ UNCHANGED <<open, spec, pipeVars>>
  /\ \/ Fail /\ UNCHANGED childVars
     \/ /\ at' = "parent" /\ ptab' = parent_side /\ UNCHANGED <<ps, k, ret>>
        /\ cat' = "files" /\ cps' = ps /\ i' = 1 /\ j' = 1
        /\ ctab' = closed(ptab, {ret[1]}) /\ cret' = ret[2]
        /\ UNCHANGED <<nomap, cloexec, pipefds, spoiled>>

\* ps_launch_parent closes the child's ends.
ParentCloses ==
  /\ at = "parent"
  /\ at' = "read"
  /\ ptab' = closed(ptab, { ps[e].pipefd : e \in { e \in DOMAIN ps : ps[e].type # "remap" } })
  /\ ps' = [e \in DOMAIN ps |->
              IF ps[e].type = "remap" THEN ps[e] ELSE [ps[e] EXCEPT !.pipefd = -1]]
  /\ UNCHANGED <<open, spec, k, ret, pipeVars, childVars>>

\* The read ends with what the child wrote, or when nobody can write any more.
ParentReads ==
  /\ at = "read"
  /\ \/ told /\ at' = "err" /\ UNCHANGED ptab
     \/ /\ ~told /\ \A n \in Fds : ptab[n] # RetW /\ ctab[n] # RetW
        /\ at' = "launched" /\ ptab' = closed(ptab, {ret[1]})
  /\ UNCHANGED <<open, spec, ps, k, ret, pipeVars, childVars>>

\* The read fails or comes back short, and ps_launch gives up on a child that may have
\* started its program.
ReadFails ==
  /\ at = "read"
  /\ at' = "err" /\ broken' = broken \cup {"read"}
  /\ UNCHANGED <<open, spec, parentVars, told, childVars>>

\* Fault: the child's end of a pipe is left open.
LeavesPipefd(e) == {e.locfd}

\* What ps_fd_entry_cleanup closes.  A FILE closes its descriptor.
cleanup(e) == {e.locfd} \cup IF e.type = "remap" THEN {} ELSE {e.pipefd}

\* ps_spec_cleanup.
ps_spec_cleanup(more) ==
  /\ ptab' = closed(ptab, more \cup UNION { cleanup(ps[e]) : e \in DOMAIN ps })
  /\ ps' = << >>

\* ps_launch returns NULL.  After the fork ret[2] is -1.
LaunchFails ==
  /\ at = "err"
  /\ at' = "failed"
  /\ ps_spec_cleanup(Range(ret))
  /\ UNCHANGED <<open, spec, k, ret, pipeVars, childVars>>

-----------------------------------------------------------------------------
(* ps_launch in the child. *)

ChildFails == cat' = "err" /\ UNCHANGED <<cps, i, ctab, cloexec>>

\* open_rdr_files, at entry i.  open fails without a path, so in this code always.
OpenFile ==
  /\ cat = "files" /\ i <= Len(cps)
  /\ UNCHANGED <<open, spec, at, parentVars, pipeVars, j, nomap, cret, pipefds, spoiled>>
  /\ IF cps[i].type # "file"
     THEN i' = i + 1 /\ UNCHANGED <<cat, cps, ctab, cloexec>>
     ELSE \/ ChildFails
          \/ /\ cps[i].path /\ unused(ctab) # {}
             /\ cps' = [cps EXCEPT ![i].pipefd = lowest(ctab)]
             /\ ctab' = opened(ctab, << "file", i >>)
             /\ i' = i + 1 /\ UNCHANGED <<cat, cloexec>>

\* FD_CLOEXEC, and set_up_fds up to where the moves begin: what no entry needs is closed.
CloseOthers ==
  /\ cat = "files" /\ i > Len(cps)
  /\ UNCHANGED <<open, spec, at, parentVars, pipeVars, j, nomap, cret, spoiled>>
  /\ \/ ChildFails /\ UNCHANGED pipefds
     \/ /\ cat' = "map" /\ i' = 1 /\ cloexec' = {cret}
        /\ pipefds' = {cret} \cup { cps[e].pipefd : e \in DOMAIN cps }
        /\ ctab' = closed(ctab, (Fds \ pipefds') \cup { cps[e].locfd : e \in DOMAIN cps })
        /\ UNCHANGED cps

\* Fault: nothing is in the way.
NeverInTheWay(tfd) == FALSE

\* The target is in the way of a later move.
blocking(tfd) == tfd \in pipefds

\* The entries that need fd.
users(fd) == { e \in DOMAIN cps : cps[e].pipefd = fd }

\* The entry whose pipefd is changed: the first that needs tfd, and if there is none,
\* the last one, where l_for_each ended.
blocked(tfd) ==
  IF users(tfd) = {} THEN Len(cps)
  ELSE CHOOSE e \in users(tfd) : \A f \in users(tfd) : e <= f

\* set_up_fd for target j of entry i.
SetUpFd ==
  LET tfd == cps[i].remfds[j]
      sfd == cps[i].pipefd
      dfd == lowest(ctab)
  IN
  /\ cat = "map" /\ i <= Len(cps) /\ j <= Len(cps[i].remfds)
  /\ UNCHANGED <<open, spec, at, parentVars, pipeVars, cret>>
  /\ \/ /\ tfd = sfd
        /\ nomap' = TRUE /\ j' = j + 1
        /\ UNCHANGED <<cat, cps, i, ctab, cloexec, pipefds, spoiled>>
     \/ tfd # sfd /\ ChildFails /\ UNCHANGED <<j, nomap, pipefds, spoiled>>
     \/ /\ tfd # sfd /\ ctab[sfd] # Closed
        /\ blocking(tfd) => unused(ctab) # {} /\ ctab[tfd] # Closed
        /\ ctab' = [(IF blocking(tfd) THEN opened(ctab, ctab[tfd]) ELSE ctab)
                      EXCEPT ![tfd] = ctab[sfd]]
        /\ cps' = IF blocking(tfd) THEN [cps EXCEPT ![blocked(tfd)].pipefd = dfd] ELSE cps
        /\ cloexec' = cloexec \ {tfd}
        /\ pipefds' = pipefds \ {sfd}
        /\ spoiled' = (spoiled \/ IF tfd \in pipefds THEN Cardinality(users(tfd)) # 1
                                  ELSE users(tfd) # {})
        /\ j' = j + 1 /\ UNCHANGED <<cat, i, nomap>>

\* set_up_fds, after the last target of entry i: its source is closed.
NextEntry ==
  /\ cat = "map" /\ i <= Len(cps) /\ j > Len(cps[i].remfds)
  /\ i' = i + 1 /\ j' = 1 /\ nomap' = FALSE
  /\ IF nomap THEN UNCHANGED <<ctab, cps, spoiled>>
     ELSE /\ ctab' = closed(ctab, {cps[i].pipefd})
          /\ spoiled' = (spoiled \/ users(cps[i].pipefd) # {i})
          /\ cps' = [cps EXCEPT ![i].pipefd = -1]
  /\ UNCHANGED <<open, spec, at, parentVars, pipeVars, cat, cret, cloexec, pipefds>>

Execve ==
  /\ cat = "map" /\ i > Len(cps)
  /\ \/ ChildFails
     \/ cat' = "program" /\ ctab' = closed(ctab, cloexec) /\ UNCHANGED <<cps, i, cloexec>>
  /\ UNCHANGED <<open, spec, at, parentVars, pipeVars, j, nomap, cret, pipefds, spoiled>>

\* Fault: the child ends without a word.
SaysNothing == told

\* io_write of rerrno to retpipe[1].
tells == told \/ ctab[cret] = RetW

\* The child exits whether or not the write succeeds.
ChildExits ==
  /\ cat = "err"
  /\ cat' = "died"
  /\ \/ told' = tells /\ UNCHANGED broken
     \/ broken' = broken \cup {"write"} /\ UNCHANGED told
  /\ ctab' = [n \in Fds |-> Closed]
  /\ UNCHANGED <<open, spec, at, parentVars, cps, i, j, nomap, cret, cloexec, pipefds, spoiled>>

\* The program exits, or a signal ends it.
ProgramExits ==
  /\ cat = "program"
  /\ cat' \in {"exited", "killed"} /\ ctab' = [n \in Fds |-> Closed]
  /\ UNCHANGED <<open, spec, at, parentVars, pipeVars, cps, i, j, nomap, cret, cloexec, pipefds,
                 spoiled>>

-----------------------------------------------------------------------------
(* The client with its child. *)

\* What waitpid may report of the child.
Ended == {"exited", "killed", "died"}

After == UNCHANGED <<open, spec, k, ret, pipeVars, childVars>>

\* ps_closeio, on entry e.
ps_closeio(e) ==
  /\ at \in {"launched", "finished"} /\ e \in DOMAIN ps /\ After
  /\ ptab' = closed(ptab, {ps[e].locfd})
  /\ ps' = [ps EXCEPT ![e].locfd = -1, ![e].file = FALSE]
  /\ UNCHANGED at

\* ps_running, when waitpid has something to report.  With SIGCHLD ignored it has not.
\* abort_unless(WIFEXITED(status)): a client whose program a signal ended goes no further.
ps_running ==
  /\ at = "launched" /\ cat \in Ended /\ ~IgnoreSigcld /\ After
  /\ at' = IF cat = "killed" THEN "aborted" ELSE "finished"
  /\ UNCHANGED <<ps, ptab>>

\* ps_cleanup, which may wait for the child.
ps_cleanup(wait) ==
  /\ at \in {"launched", "finished"} /\ After
  /\ wait /\ at = "launched" => cat \in Ended
  /\ at' = "over" /\ ps_spec_cleanup({})

Build ==
  \/ ps_spec_add_pipe \/ ps_spec_add_fsrdr \/ ps_spec_add_remap \/ ps_spec_keepfd
  \/ \E e \in DOMAIN spec : ps_spec_del_fde(e)
  \/ \E e \in DOMAIN spec, fd \in Targets : ps_fde_addfd(e, fd) \/ ps_fde_delfd(e, fd)

Parent ==
  CreatePipe \/ PipesCreated \/ OpenStdio \/ Fork \/ ParentCloses \/ ParentReads \/ LaunchFails

Child == OpenFile \/ CloseOthers \/ SetUpFd \/ NextEntry \/ Execve \/ ChildExits

Next ==
  \/ Build \/ Launch \/ Parent \/ ReadFails \/ Child \/ ProgramExits
  \/ \E e \in 1 .. MaxEntries : ps_closeio(e)
  \/ ps_running \/ \E wait \in BOOLEAN : ps_cleanup(wait)

Spec == Init /\ [][Next]_vars

\* Both processes run.  Nothing is said of how long the program does, and no read has
\* to fail.
FairSpec == Spec /\ WF_vars(Parent) /\ WF_vars(Child)

-----------------------------------------------------------------------------
(* Properties. *)

\* The description asked for as fd: the one of the entry that has fd as a target.
asked(fd) ==
  LET mine == { e \in DOMAIN spec : fd \in Range(spec[e].remfds) }
      e    == CHOOSE e \in mine : TRUE
  IN  IF mine = {} THEN Closed
      ELSE CASE spec[e].type = "remap" -> << "old", spec[e].pipefd >>
             [] spec[e].type = "file"  -> << "file", e >>
             [] OTHER                  -> << "remote", e >>

\* The program starts with exactly the descriptors asked for, each in its place and no
\* other one open, whatever moves were in the way of each other.
AsAsked == cat = "program" /\ ~spoiled => \A fd \in Fds : ctab[fd] = asked(fd)

\* ps_launch returns a child exactly if the program was started, when the pipe that
\* tells works.  If the child cannot write to it, the parent takes its end for the
\* start of the program; if the parent cannot read from it, it takes a program that may
\* be running for one that was never started.  Either failure spoils only its own side.
LaunchTrue ==
  ~spoiled => /\ at \in {"launched", "finished", "over", "aborted"} =>
                   cat \in {"program", "exited", "killed"} \/ "write" \in broken
              /\ at = "failed" => cat \in {"none", "died"} \/ "read" \in broken

\* Wherever a launch failed, and after each cleanup, the client has the descriptors
\* that it had before.
NoLeak == at \in {"failed", "over"} => ptab = Old

\* ps_launch returns, however long the program runs.
LaunchReturns == at = "pipes" ~> (at \in {"launched", "failed"} \/ spoiled)

(* What include/cat/pspawn.h promises and the code does not keep; see the README. *)

\* The program has what was asked for, always.
AlwaysAsAsked == cat = "program" => \A fd \in Fds : ctab[fd] = asked(fd)

\* ps_launch returns a child exactly if the program was started, always.
LaunchAlwaysTrue ==
  /\ at \in {"launched", "finished", "over", "aborted"} => cat \in {"program", "exited", "killed"}
  /\ at = "failed" => cat \in {"none", "died"}

\* A child knows the files it has to open.
PathKept == \A e \in DOMAIN cps : cps[e].type = "file" => cps[e].path
=============================================================================
