-------------------------------- MODULE Wiki --------------------------------
(***************************************************************************)
(* The wiki under .omx/wiki: MCP servers and session hooks of several      *)
(* processes create, extend and delete pages, rebuild index.md and append  *)
(* to log.md inside with_wiki_lock, and copy the project memory to         *)
(* environment.md.  The lock is a directory that nobody takes for stale: a *)
(* process killed inside leaves it, and everyone after it times out.  One  *)
(* that raises inside removes it, however far its body has come.           *)
(*                                                                         *)
(* One action per file: a page, the index and the log are replaced by a    *)
(* rename, and what is written was computed from an earlier read.  A page  *)
(* is the set of the contents ingested into it, the index the set of the   *)
(* pages it lists.  The directory itself exists from the start.            *)
(***************************************************************************)
EXTENDS Naturals, FiniteSets

CONSTANTS
  Keepers,     \* processes using the wiki
  Pages,       \* file names of pages, reserved ones left out
  SessionLogs, \* those of them that session ends write
  Items,       \* contents to ingest
  Nil,         \* no page or content, in a call that is about none
  MaxCalls,    \* bound: calls made
  MaxEdits     \* bound: how often the project memory is replaced

Free   == "free"
Orphan == "orphan"      \* the lock of a process that is gone, or could not remove it

WikiParameters ==
  /\ {Free, Orphan} \cap Keepers = {}
  /\ SessionLogs \subseteq Pages
  /\ Nil \notin Pages
  /\ MaxCalls \in Nat
  /\ MaxEdits \in Nat

VARIABLES
  lock,    \* .wiki-lock.lock: Free, Orphan or the process that made it
  pages,   \* page -> the contents it holds; none: no such file
  index,   \* the pages index.md lists
  indexed, \* index.md has been written
  entries, \* the entries of log.md
  memory,  \* version of project-memory.json; 0: no file
  env,     \* environment.md: the version it holds and the one current at its date
  at,      \* where each process is
  job,     \* what it was called for
  seen,    \* what it last read
  calls,   \* calls made so far
  late,    \* history: the memory was replaced between a read of it and its date
  behind   \* history: since index.md was last written, a body that had changed a page
           \* and not yet written the index has raised

wikiVars == <<lock, pages, index, indexed, entries, memory, env, at, job, seen, calls, late, behind>>

Operations == {"none", "ingest", "add", "delete", "refresh", "report", "rebuild",
               "session-end", "session-start"}

\* positions inside with_wiki_lock, and all positions
Inside == {"read", "write", "unlink", "environment", "scan", "index", "readlog",
           "append", "release"}
Locations == Inside \cup {"idle", "stamp", "lock"}

\* again: the second use of the lock, which only logs
Jobs == [op : Operations, page : Pages \cup {Nil}, item : Items \cup {Nil}, again : BOOLEAN]

NoJob == [op |-> "none", page |-> Nil, item |-> Nil, again |-> FALSE]

Entries == [op : Operations, page : Pages \cup {Nil}, item : Items \cup {Nil}]

Sights == [page : SUBSET Items, list : SUBSET Pages, log : SUBSET Entries,
           memory : 0 .. MaxEdits, stamp : 0 .. MaxEdits]

Nothing == [page |-> {}, list |-> {}, log |-> {}, memory |-> 0, stamp |-> 0]

Environments == [holds : 0 .. MaxEdits, stamp : 0 .. MaxEdits]

\* list_pages
Present == {g \in Pages : pages[g] # {}}

WikiInit ==
  /\ lock = Free
  /\ pages = [g \in Pages |-> {}]
  /\ index = {}
  /\ indexed = FALSE
  /\ entries = {}
  /\ memory = 0
  /\ env = [holds |-> 0, stamp |-> 0]
  /\ at = [p \in Keepers |-> "idle"]
  /\ job = [p \in Keepers |-> NoJob]
  /\ seen = [p \in Keepers |-> Nothing]
  /\ calls = 0
  /\ late = FALSE
  /\ behind = FALSE

Goto(p, l) == at' = [at EXCEPT ![p] = l]

Sees(p, s) == seen' = [seen EXCEPT ![p] = s]

\* the call returns, raises or dies
Leave(p) ==
  /\ Goto(p, "idle")
  /\ job' = [job EXCEPT ![p] = NoJob]
  /\ Sees(p, Nothing)

wikiFiles == <<pages, index, indexed, entries, memory, env>>

-----------------------------------------------------------------------------
(* Calls, up to the lock *)

Call(p, op, g, i, l) ==
  /\ at[p] = "idle"
  /\ calls < MaxCalls
  /\ calls' = calls + 1
  /\ job' = [job EXCEPT ![p] = [op |-> op, page |-> g, item |-> i, again |-> FALSE]]
  /\ Goto(p, l)
  /\ UNCHANGED <<lock, wikiFiles, late, behind>>

AskWiki(p, op, g, i) == Call(p, op, g, i, "lock") /\ UNCHANGED seen

\* ingest_knowledge
Ingest(p, g, i) == AskWiki(p, "ingest", g, i)

\* the wiki_add tool looks for the page before it has the lock
Add(p, g, i) == pages[g] = {} /\ AskWiki(p, "add", g, i)

\* delete_page
Delete(p, g) == AskWiki(p, "delete", g, Nil)

\* the wiki_refresh tool
Refresh(p) == AskWiki(p, "refresh", Nil, Nil)

\* query_wiki and lint_wiki, which only log
Report(p) == AskWiki(p, "report", Nil, Nil)

\* on_session_start finds pages and no index
Rebuild(p) == Present # {} /\ ~indexed /\ AskWiki(p, "rebuild", Nil, Nil)

\* on_session_end
SessionEnd(p, g, i) == AskWiki(p, "session-end", g, i)

\* on_session_start: _feed_project_memory reads the memory and the date of environment.md
Feed(p) ==
  /\ Present # {} /\ indexed /\ memory > 0
  /\ Call(p, "session-start", Nil, Nil, "stamp")
  /\ Sees(p, [Nothing EXCEPT !.memory = memory, !.stamp = env.stamp])

\* then it compares that date with the memory's mtime, and takes today's for the page
Stamp(p) ==
  /\ at[p] = "stamp"
  /\ late' = (late \/ seen[p].memory # memory)
  /\ IF seen[p].stamp >= memory
       THEN Leave(p)
       ELSE /\ Goto(p, "lock")
            /\ Sees(p, [seen[p] EXCEPT !.stamp = memory])
            /\ UNCHANGED job
  /\ UNCHANGED <<lock, wikiFiles, calls, behind>>

-----------------------------------------------------------------------------
(* with_wiki_lock *)

\* the first step of each operation's body
First(j) ==
  CASE j.again \/ j.op = "report"              -> "readlog"
    [] ~j.again /\ j.op \in {"ingest", "add"}  -> "read"
    [] ~j.again /\ j.op = "delete"             -> "unlink"
    [] ~j.again /\ j.op = "session-end"        -> "write"
    [] ~j.again /\ j.op = "session-start"      -> "environment"
    [] OTHER                                   -> "scan"

\* mutant of Enter: the lock of a killed process is taken over
EnterOrphan(p) ==
  /\ at[p] = "lock"
  /\ lock \in {Free, Orphan}
  /\ lock' = p
  /\ Goto(p, First(job[p]))
  /\ UNCHANGED <<wikiFiles, job, seen, calls, late, behind>>

\* mkdir succeeds; a session end that had to wait over three seconds does nothing
Enter(p) ==
  /\ at[p] = "lock"
  /\ lock = Free
  /\ lock' = p
  /\ \/ Goto(p, First(job[p]))
     \/ job[p].op = "session-end" /\ Goto(p, "release")
  /\ UNCHANGED <<wikiFiles, job, seen, calls, late, behind>>

\* TimeoutError after five seconds
GiveUp(p) ==
  /\ at[p] = "lock"
  /\ lock # Free
  /\ Leave(p)
  /\ UNCHANGED <<lock, wikiFiles, calls, late, behind>>

\* rmtree, whose errors are ignored; then a second use of the lock writes the log entry of
\* an add, a delete or a refresh
ReleaseWiki(p) ==
  /\ at[p] = "release"
  /\ lock' \in {Free, Orphan}
  /\ IF job[p].op \in {"add", "delete", "refresh"} /\ ~job[p].again
       THEN /\ Goto(p, "lock")
            /\ job' = [job EXCEPT ![p].again = TRUE]
            /\ UNCHANGED seen
       ELSE Leave(p)
  /\ UNCHANGED <<wikiFiles, calls, late, behind>>

\* a page has been changed and the index is still to be written
Unlisted(p) ==
  \/ at[p] \in {"scan", "index"} /\ job[p].op \in {"ingest", "add", "delete", "session-end"}
  \/ at[p] \in {"readlog", "append"} /\ job[p].op = "session-end"

\* a body raises: a file cannot be written or decoded, or Ctrl-C; finally removes the lock
RaiseInside(p) ==
  /\ at[p] \in Inside
  /\ lock' \in {Free, Orphan}
  /\ behind' = (behind \/ Unlisted(p))
  /\ Leave(p)
  /\ UNCHANGED <<wikiFiles, calls, late>>

-----------------------------------------------------------------------------
(* Bodies *)

\* read_page of ingest_knowledge
Read(p) ==
  /\ at[p] = "read"
  /\ Goto(p, "write")
  /\ Sees(p, [seen[p] EXCEPT !.page = pages[job[p].page]])
  /\ UNCHANGED <<lock, wikiFiles, job, calls, late, behind>>

\* mutant of Merged: an added page is written as new
MergedAnew(p) ==
  IF job[p].op \in {"session-end", "add"}
    THEN {job[p].item}
    ELSE seen[p].page \cup {job[p].item}

\* _create_page or _merge_page; the page of a session end is made anew
Merged(p) ==
  IF job[p].op = "session-end" THEN {job[p].item} ELSE seen[p].page \cup {job[p].item}

\* write_page_unsafe
Write(p) ==
  /\ at[p] = "write"
  /\ pages' = [pages EXCEPT ![job[p].page] = Merged(p)]
  /\ Sees(p, Nothing)
  /\ Goto(p, IF job[p].op = "session-end" THEN "readlog" ELSE "scan")
  /\ UNCHANGED <<lock, index, indexed, entries, memory, env, job, calls, late, behind>>

\* delete_page_unsafe
Unlink(p) ==
  /\ at[p] = "unlink"
  /\ IF pages[job[p].page] = {}
       THEN /\ Goto(p, "release")
            /\ job' = [job EXCEPT ![p].op = "none"]
       ELSE /\ Goto(p, "scan")
            /\ UNCHANGED job
  /\ pages' = [pages EXCEPT ![job[p].page] = {}]
  /\ UNCHANGED <<lock, index, indexed, entries, memory, env, seen, calls, late, behind>>

\* mutant of WriteEnvironment: the page is dated when it is written
WriteEnvironmentNow(p) ==
  /\ at[p] = "environment"
  /\ env' = [holds |-> seen[p].memory, stamp |-> memory]
  /\ Goto(p, "scan")
  /\ Sees(p, Nothing)
  /\ UNCHANGED <<lock, pages, index, indexed, entries, memory, job, calls, late, behind>>

\* the body of _feed_project_memory
WriteEnvironment(p) ==
  /\ at[p] = "environment"
  /\ env' = [holds |-> seen[p].memory, stamp |-> seen[p].stamp]
  /\ Goto(p, "scan")
  /\ Sees(p, Nothing)
  /\ UNCHANGED <<lock, pages, index, indexed, entries, memory, job, calls, late, behind>>

\* read_all_pages and the rest of update_index_unsafe
Scan(p) ==
  /\ at[p] = "scan"
  /\ Goto(p, "index")
  /\ Sees(p, [seen[p] EXCEPT !.list = Present])
  /\ UNCHANGED <<lock, wikiFiles, job, calls, late, behind>>

WriteIndex(p) ==
  /\ at[p] = "index"
  /\ index' = seen[p].list
  /\ indexed' = TRUE
  /\ behind' = FALSE
  /\ Sees(p, Nothing)
  /\ Goto(p, IF job[p].op \in {"ingest", "add", "session-start"} THEN "readlog" ELSE "release")
  /\ UNCHANGED <<lock, pages, entries, memory, env, job, calls, late>>

\* append_log_unsafe: the whole log is read and written back with one more entry
ReadLog(p) ==
  /\ at[p] = "readlog"
  /\ Goto(p, "append")
  /\ Sees(p, [seen[p] EXCEPT !.log = entries])
  /\ UNCHANGED <<lock, wikiFiles, job, calls, late, behind>>

\* an add is first logged as the ingest it makes; a refresh is logged as an add
Entry(j) ==
  [op   |-> CASE j.op = "add" /\ ~j.again -> "ingest"
              [] j.op = "refresh"         -> "add"
              [] OTHER                    -> j.op,
   page |-> j.page,
   item |-> j.item]

AppendLog(p) ==
  /\ at[p] = "append"
  /\ entries' = seen[p].log \cup {Entry(job[p])}
  /\ Sees(p, Nothing)
  /\ Goto(p, IF job[p].op = "session-end" THEN "scan" ELSE "release")
  /\ UNCHANGED <<lock, pages, index, indexed, memory, env, job, calls, late, behind>>

-----------------------------------------------------------------------------
(* The environment *)

\* another tool replaces the project memory
Edit ==
  /\ memory < MaxEdits
  /\ memory' = memory + 1
  /\ UNCHANGED <<lock, pages, index, indexed, entries, env, at, job, seen, calls, late, behind>>

\* SIGKILL: a lock the process holds stays
KillKeeper(p) ==
  /\ at[p] # "idle"
  /\ Leave(p)
  /\ lock' = IF lock = p THEN Orphan ELSE lock
  /\ UNCHANGED <<wikiFiles, calls, late, behind>>

Begin(p) ==
  \/ \E g \in Pages, i \in Items : Ingest(p, g, i) \/ Add(p, g, i)
  \/ \E g \in Pages : Delete(p, g)
  \/ \E g \in SessionLogs, i \in Items : SessionEnd(p, g, i)
  \/ Refresh(p)
  \/ Report(p)
  \/ Rebuild(p)
  \/ Feed(p)

WikiStep(p) ==
  \/ Stamp(p)
  \/ Enter(p)
  \/ GiveUp(p)
  \/ ReleaseWiki(p)
  \/ RaiseInside(p)
  \/ Read(p)
  \/ Write(p)
  \/ Unlink(p)
  \/ WriteEnvironment(p)
  \/ Scan(p)
  \/ WriteIndex(p)
  \/ ReadLog(p)
  \/ AppendLog(p)

WikiNext ==
  \/ \E p \in Keepers : Begin(p) \/ WikiStep(p) \/ KillKeeper(p)
  \/ Edit

WikiSpec == WikiInit /\ [][WikiNext]_wikiVars

-----------------------------------------------------------------------------

WikiTypeOK ==
  /\ lock \in Keepers \cup {Free, Orphan}
  /\ pages \in [Pages -> SUBSET Items]
  /\ index \in SUBSET Pages
  /\ indexed \in BOOLEAN
  /\ entries \in SUBSET Entries
  /\ memory \in 0 .. MaxEdits
  /\ env \in Environments
  /\ at \in [Keepers -> Locations]
  /\ job \in [Keepers -> Jobs]
  /\ seen \in [Keepers -> Sights]
  /\ calls \in 0 .. MaxCalls
  /\ late \in BOOLEAN
  /\ behind \in BOOLEAN

\* Whenever nobody is at work and no lock is left behind, index.md lists the pages there
\* are, whichever calls have overlapped, timed out, found no page or been killed; unless a
\* body raised between its change of a page and its index (the finally of with_wiki_lock
\* frees the lock then, storage.py 68-71) and no index has been written since.
IndexFollowsPages == lock = Free /\ ~behind => index = Present

\* "append strategy -- never replaces content" (ingest.py 4): a page that session ends do
\* not own only grows or is deleted, whoever ingests into it at the same time.
NothingReplaced ==
  [][\A g \in Pages \ SessionLogs : pages[g] \subseteq pages'[g] \/ pages'[g] = {}]_wikiVars

\* No entry of log.md is ever lost, although each append writes the whole file back and
\* adds, deletions and refreshes log in a second use of the lock (storage.py 427-445).
LogOnlyGrows == [][entries \subseteq entries']_wikiVars

\* An environment page dated no earlier than the memory holds that memory, so no session
\* start skips one it should copy (lifecycle.py 235-256) -- as long as the memory was not
\* replaced between a session start's read of it and the date it takes.
EnvironmentHeals == ~late /\ env.stamp >= memory => env.holds = memory
=============================================================================
