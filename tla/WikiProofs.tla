----------------------------- MODULE WikiProofs -----------------------------
(***************************************************************************)
(* Proofs about Wiki, for every set of processes, pages and contents and   *)
(* every bound.  Mutual exclusion (Exclusive) holds because nobody but its *)
(* holder, on its way out, removes the lock; all that is read inside       *)
(* with_wiki_lock is therefore still true when it is written back          *)
(* (Knowing, IndexKept), a kill inside keeps everybody else out for good,  *)
(* and of the bodies that raise only those between a page and its index    *)
(* leave it behind.                                                        *)
(***************************************************************************)
EXTENDS Wiki, TLAPS

\* A process is inside with_wiki_lock exactly if the lock is its own.
Exclusive == \A p \in Keepers : at[p] \in Inside <=> lock = p

\* What a process is doing and what it was called for go together.
Fits(p) ==
  /\ at[p] \in {"stamp", "environment"} => job[p].op = "session-start"
  /\ at[p] = "read" => job[p].op \in {"ingest", "add"}
  /\ at[p] = "write" => job[p].op \in {"ingest", "add", "session-end"}
  /\ at[p] = "unlink" => job[p].op = "delete"
  /\ job[p].op \in {"ingest", "add", "session-end"} =>
       job[p].page \in Pages /\ job[p].item \in Items
  /\ job[p].op = "delete" => job[p].page \in Pages
  /\ job[p].op = "session-end" => job[p].page \in SessionLogs

Fitting == \A p \in Keepers : Fits(p)

\* Inside the lock the index is current but between a page and its index, unless an earlier
\* body left it behind, and a scan still holds when the index is written.
Indexes(p) ==
  /\ at[p] \in Inside /\ ~Unlisted(p) /\ ~behind => index = Present
  /\ at[p] = "index" => seen[p].list = Present

IndexKept == IndexFollowsPages /\ \A p \in Keepers : Indexes(p)

\* The page and the log a process is about to write back are as it read them.
Knows(p) ==
  /\ at[p] = "write" /\ job[p].op # "session-end" => seen[p].page = pages[job[p].page]
  /\ at[p] = "append" => seen[p].log = entries

Knowing == \A p \in Keepers : Knows(p)

\* No date lies ahead of the memory, and a session start dates the version it read.
Dates(p) ==
  /\ seen[p].memory <= memory
  /\ job[p].op = "session-start" /\ at[p] \in {"lock", "environment"} =>
       /\ seen[p].stamp <= memory
       /\ ~late => seen[p].memory = seen[p].stamp

Dated ==
  /\ \A p \in Keepers : Dates(p)
  /\ env.stamp <= memory
  /\ ~late => env.holds = env.stamp

IInv == WikiTypeOK /\ Exclusive /\ Fitting /\ IndexKept /\ Knowing /\ Dated

-----------------------------------------------------------------------------

\* The record of an idle process is one.
LEMMA JobType == NoJob \in Jobs
BY DEF NoJob, Jobs, Operations

\* The empty record of what was read is one.
LEMMA NothingType ==
  ASSUME WikiParameters
  PROVE  Nothing \in Sights
<1>1. 0 \in 0 .. MaxEdits
  BY DEF WikiParameters
<1> QED BY <1>1 DEF Nothing, Sights

\* Every step keeps the types.
LEMMA TypeStep ==
  ASSUME WikiParameters, WikiTypeOK, Fitting, [WikiNext]_wikiVars
  PROVE  WikiTypeOK'
<1> USE DEF WikiTypeOK, Fitting, Goto, Sees, Leave, wikiFiles
<1>1. ASSUME NEW p \in Keepers, NEW op \in Operations \ {"none"}, NEW g \in Pages \cup {Nil},
             NEW i \in Items \cup {Nil}, NEW l \in {"stamp", "lock"},
             Call(p, op, g, i, l), seen' \in [Keepers -> Sights]
      PROVE WikiTypeOK'
  <2>1. [op |-> op, page |-> g, item |-> i, again |-> FALSE] \in Jobs
    BY DEF Jobs, Operations
  <2>2. calls' \in 0 .. MaxCalls
    BY <1>1 DEF Call, WikiParameters
  <2> QED BY <1>1, <2>1, <2>2 DEF Call, Locations
<1>2. ASSUME NEW p \in Keepers, Begin(p) PROVE WikiTypeOK'
  <2>1. ASSUME NEW op \in Operations \ {"none"}, NEW g \in Pages \cup {Nil},
               NEW i \in Items \cup {Nil}, AskWiki(p, op, g, i)
        PROVE WikiTypeOK'
    BY <1>1, <2>1 DEF AskWiki
  <2>2. CASE Feed(p)
    <3>1. [Nothing EXCEPT !.memory = memory, !.stamp = env.stamp] \in Sights
      BY NothingType DEF Sights, Environments
    <3>2. seen' \in [Keepers -> Sights]
      BY <2>2, <3>1 DEF Feed
    <3> QED BY <1>1, <2>2, <3>2 DEF Feed, Operations
  <2>3. ASSUME NEW g \in Pages, NEW i \in Items, Ingest(p, g, i) \/ Add(p, g, i) PROVE WikiTypeOK'
    BY <2>1, <2>3 DEF Ingest, Add, Operations
  <2>4. ASSUME NEW g \in Pages, Delete(p, g) PROVE WikiTypeOK'
    BY <2>1, <2>4 DEF Delete, Operations
  <2>5. ASSUME NEW g \in SessionLogs, NEW i \in Items, SessionEnd(p, g, i) PROVE WikiTypeOK'
    BY <2>1, <2>5 DEF SessionEnd, Operations, WikiParameters
  <2>6. CASE Refresh(p) \/ Report(p) \/ Rebuild(p)
    BY <2>1, <2>6 DEF Refresh, Report, Rebuild, Operations
  <2> QED BY <1>2, <2>2, <2>3, <2>4, <2>5, <2>6 DEF Begin
<1>3. ASSUME NEW p \in Keepers, Stamp(p) PROVE WikiTypeOK'
  <2>1. [seen[p] EXCEPT !.stamp = memory] \in Sights
    BY DEF Sights
  <2> QED BY <1>3, <2>1, JobType, NothingType DEF Stamp, Locations
<1>4. ASSUME NEW p \in Keepers, Enter(p) PROVE WikiTypeOK'
  <2>1. First(job[p]) \in Locations
    BY DEF First, Locations, Inside
  <2> QED BY <1>4, <2>1 DEF Enter, Locations, Inside
<1>5. ASSUME NEW p \in Keepers, GiveUp(p) PROVE WikiTypeOK'
  BY <1>5, JobType, NothingType DEF GiveUp, Locations
<1>6. ASSUME NEW p \in Keepers, ReleaseWiki(p) PROVE WikiTypeOK'
  <2>1. [job[p] EXCEPT !.again = TRUE] \in Jobs
    BY DEF Jobs
  <2> QED BY <1>6, <2>1, JobType, NothingType DEF ReleaseWiki, Locations
<1>7. ASSUME NEW p \in Keepers, Read(p) PROVE WikiTypeOK'
  <2>1. job[p].page \in Pages
    BY <1>7 DEF Read, Fits
  <2>2. [seen[p] EXCEPT !.page = pages[job[p].page]] \in Sights
    BY <2>1 DEF Sights
  <2> QED BY <1>7, <2>2 DEF Read, Locations, Inside
<1>8. ASSUME NEW p \in Keepers, Write(p) PROVE WikiTypeOK'
  <2>1. job[p].page \in Pages /\ job[p].item \in Items
    BY <1>8 DEF Write, Fits
  <2>2. Merged(p) \in SUBSET Items
    BY <2>1 DEF Merged, Sights
  <2> QED BY <1>8, <2>1, <2>2, NothingType DEF Write, Locations, Inside
<1>9. ASSUME NEW p \in Keepers, Unlink(p) PROVE WikiTypeOK'
  <2>1. [job[p] EXCEPT !.op = "none"] \in Jobs
    BY DEF Jobs, Operations
  <2> QED BY <1>9, <2>1 DEF Unlink, Locations, Inside
<1>10. ASSUME NEW p \in Keepers, WriteEnvironment(p) PROVE WikiTypeOK'
  <2>1. [holds |-> seen[p].memory, stamp |-> seen[p].stamp] \in Environments
    BY DEF Environments, Sights
  <2> QED BY <1>10, <2>1, NothingType DEF WriteEnvironment, Locations, Inside
<1>11. ASSUME NEW p \in Keepers, Scan(p) PROVE WikiTypeOK'
  <2>1. [seen[p] EXCEPT !.list = Present] \in Sights
    BY DEF Sights, Present
  <2> QED BY <1>11, <2>1 DEF Scan, Locations, Inside
<1>12. ASSUME NEW p \in Keepers, WriteIndex(p) PROVE WikiTypeOK'
  <2>1. seen[p].list \in SUBSET Pages
    BY DEF Sights
  <2> QED BY <1>12, <2>1, NothingType DEF WriteIndex, Locations, Inside
<1>13. ASSUME NEW p \in Keepers, ReadLog(p) PROVE WikiTypeOK'
  <2>1. [seen[p] EXCEPT !.log = entries] \in Sights
    BY DEF Sights
  <2> QED BY <1>13, <2>1 DEF ReadLog, Locations, Inside
<1>14. ASSUME NEW p \in Keepers, AppendLog(p) PROVE WikiTypeOK'
  <2>1. Entry(job[p]) \in Entries
    BY DEF Entry, Entries, Jobs, Operations
  <2>2. seen[p].log \cup {Entry(job[p])} \in SUBSET Entries
    BY <2>1 DEF Sights
  <2> QED BY <1>14, <2>2, NothingType DEF AppendLog, Locations, Inside
<1>15. ASSUME NEW p \in Keepers, KillKeeper(p) PROVE WikiTypeOK'
  BY <1>15, JobType, NothingType DEF KillKeeper, Locations
<1>16. CASE Edit
  BY <1>16 DEF Edit, WikiParameters
<1>17. CASE UNCHANGED wikiVars
  BY <1>17 DEF wikiVars
<1>18. ASSUME NEW p \in Keepers, RaiseInside(p) PROVE WikiTypeOK'
  BY <1>18, JobType, NothingType DEF RaiseInside, Locations
<1> QED
  BY <1>2, <1>3, <1>4, <1>5, <1>6, <1>7, <1>8, <1>9, <1>10, <1>11, <1>12, <1>13, <1>14,
     <1>15, <1>16, <1>17, <1>18 DEF WikiNext, WikiStep

\* What all calls have in common: an idle process gets a job and goes to the lock, or first
\* takes a date.
Shape(p) ==
  /\ at[p] = "idle" /\ UNCHANGED <<lock, wikiFiles, late, behind>>
  /\ \E l \in {"lock", "stamp"} : at' = [at EXCEPT ![p] = l]
  /\ at'[p] \in {"lock", "stamp"}
  /\ job' = [job EXCEPT ![p] = job'[p]]
  /\ Fits(p)'
  /\ job'[p].op = "session-start" => at'[p] = "stamp"
  /\ seen' = [seen EXCEPT ![p] = seen'[p]]
  /\ seen'[p].memory = seen[p].memory \/ seen'[p].memory = memory

\* Every call has that shape.
LEMMA BeginShape ==
  ASSUME WikiParameters, WikiTypeOK, NEW p \in Keepers, Begin(p)
  PROVE  Shape(p)
<1> USE DEF WikiParameters, WikiTypeOK
<1>1. ASSUME NEW op \in Operations \ {"none", "session-start"}, NEW g \in Pages \cup {Nil},
             NEW i \in Items \cup {Nil},
             AskWiki(p, op, g, i),
             op \in {"ingest", "add", "session-end"} => g \in Pages /\ i \in Items,
             op = "delete" => g \in Pages,
             op = "session-end" => g \in SessionLogs
      PROVE  Shape(p)
  <2>1. Call(p, op, g, i, "lock") /\ UNCHANGED seen
    BY <1>1 DEF AskWiki
  <2>2. /\ at[p] = "idle" /\ UNCHANGED <<lock, wikiFiles, late, behind>>
        /\ at' = [at EXCEPT ![p] = "lock"] /\ at'[p] = "lock"
        /\ job' = [job EXCEPT ![p] = job'[p]]
        /\ job'[p].op = op /\ job'[p].page = g /\ job'[p].item = i
    BY <2>1 DEF Call, Goto
  <2>3. Fits(p)'
    BY <1>1, <2>2 DEF Fits
  <2>4. seen' = [seen EXCEPT ![p] = seen'[p]] /\ seen'[p].memory = seen[p].memory
    BY <2>1
  <2> QED BY <1>1, <2>2, <2>3, <2>4 DEF Shape
<1>2. CASE Feed(p)
  <2>1. Call(p, "session-start", Nil, Nil, "stamp")
    BY <1>2 DEF Feed
  <2>2. /\ at[p] = "idle" /\ UNCHANGED <<lock, wikiFiles, late, behind>>
        /\ at' = [at EXCEPT ![p] = "stamp"] /\ at'[p] = "stamp"
        /\ job' = [job EXCEPT ![p] = job'[p]]
        /\ job'[p].op = "session-start"
    BY <2>1 DEF Call, Goto
  <2>3. Fits(p)'
    BY <2>2 DEF Fits
  <2>4. seen' = [seen EXCEPT ![p] = seen'[p]] /\ seen'[p].memory = memory
    BY <1>2 DEF Feed, Sees, Nothing
  <2> QED BY <2>2, <2>3, <2>4 DEF Shape
<1>3. ASSUME NEW g \in Pages, NEW i \in Items, Ingest(p, g, i) \/ Add(p, g, i) PROVE Shape(p)
  BY <1>1, <1>3 DEF Ingest, Add, Operations
<1>4. ASSUME NEW g \in Pages, Delete(p, g) PROVE Shape(p)
  BY <1>1, <1>4 DEF Delete, Operations
<1>5. ASSUME NEW g \in SessionLogs, NEW i \in Items, SessionEnd(p, g, i) PROVE Shape(p)
  BY <1>1, <1>5 DEF SessionEnd, Operations
<1>6. CASE Refresh(p) \/ Report(p) \/ Rebuild(p)
  BY <1>1, <1>6 DEF Refresh, Report, Rebuild, Operations
<1> QED BY <1>2, <1>3, <1>4, <1>5, <1>6 DEF Begin

\* Only the holder frees the lock, when its body ends or raises; a kill leaves it for good.
LEMMA ExclusiveStep ==
  ASSUME WikiParameters, IInv, [WikiNext]_wikiVars, WikiTypeOK'
  PROVE  Exclusive'
<1> USE DEF IInv, WikiParameters
<1>1. ASSUME NEW p \in Keepers, Stamp(p) PROVE Exclusive'
  BY <1>1 DEF Stamp, Goto, Sees, Leave, Nothing, NoJob, wikiFiles, Exclusive, WikiTypeOK, Inside
<1>2. ASSUME NEW p \in Keepers, Enter(p) PROVE Exclusive'
  BY <1>2 DEF Enter, Goto, First, wikiFiles, Exclusive, WikiTypeOK, Inside
<1>3. ASSUME NEW p \in Keepers, GiveUp(p) PROVE Exclusive'
  BY <1>3 DEF GiveUp, Leave, Goto, Sees, Nothing, NoJob, wikiFiles, Exclusive, WikiTypeOK, Inside
<1>4. ASSUME NEW p \in Keepers, ReleaseWiki(p) PROVE Exclusive'
  BY <1>4 DEF ReleaseWiki, Leave, Goto, Sees, Nothing, NoJob, wikiFiles, Exclusive, WikiTypeOK, Inside
<1>5. ASSUME NEW p \in Keepers, Read(p) PROVE Exclusive'
  BY <1>5 DEF Read, Goto, Sees, wikiFiles, Exclusive, WikiTypeOK, Inside
<1>6. ASSUME NEW p \in Keepers, Write(p) PROVE Exclusive'
  BY <1>6 DEF Write, Goto, Sees, Nothing, Exclusive, WikiTypeOK, Inside
<1>7. ASSUME NEW p \in Keepers, Unlink(p) PROVE Exclusive'
  BY <1>7 DEF Unlink, Goto, Exclusive, WikiTypeOK, Inside
<1>8. ASSUME NEW p \in Keepers, WriteEnvironment(p) PROVE Exclusive'
  BY <1>8 DEF WriteEnvironment, Goto, Sees, Nothing, Exclusive, WikiTypeOK, Inside
<1>9. ASSUME NEW p \in Keepers, Scan(p) PROVE Exclusive'
  BY <1>9 DEF Scan, Goto, Sees, wikiFiles, Exclusive, WikiTypeOK, Inside
<1>10. ASSUME NEW p \in Keepers, WriteIndex(p) PROVE Exclusive'
  BY <1>10 DEF WriteIndex, Goto, Sees, Nothing, Exclusive, WikiTypeOK, Inside
<1>11. ASSUME NEW p \in Keepers, ReadLog(p) PROVE Exclusive'
  BY <1>11 DEF ReadLog, Goto, Sees, wikiFiles, Exclusive, WikiTypeOK, Inside
<1>12. ASSUME NEW p \in Keepers, AppendLog(p) PROVE Exclusive'
  BY <1>12 DEF AppendLog, Goto, Sees, Nothing, Exclusive, WikiTypeOK, Inside
<1>13. ASSUME NEW p \in Keepers, KillKeeper(p) PROVE Exclusive'
  BY <1>13 DEF KillKeeper, Leave, Goto, Sees, Nothing, NoJob, wikiFiles, Exclusive, WikiTypeOK, Inside
<1>14. ASSUME NEW p \in Keepers, Begin(p) PROVE Exclusive'
  BY <1>14, BeginShape DEF Shape, wikiFiles, Exclusive, WikiTypeOK, Inside
<1>15. CASE Edit
  BY <1>15 DEF Edit, Exclusive, WikiTypeOK, Inside
<1>16. CASE UNCHANGED wikiVars
  BY <1>16 DEF wikiVars, Exclusive, WikiTypeOK, Inside
<1>17. ASSUME NEW p \in Keepers, RaiseInside(p) PROVE Exclusive'
  BY <1>17 DEF RaiseInside, Leave, Goto, Sees, Nothing, NoJob, wikiFiles, Free, Orphan, Exclusive, WikiTypeOK,
     Inside
<1> QED
  BY <1>1, <1>2, <1>3, <1>4, <1>5, <1>6, <1>7, <1>8, <1>9, <1>10, <1>11, <1>12, <1>13,
     <1>14, <1>15, <1>16, <1>17 DEF WikiNext, WikiStep

\* Every step keeps positions and jobs together.
LEMMA FittingStep ==
  ASSUME WikiParameters, IInv, [WikiNext]_wikiVars, WikiTypeOK'
  PROVE  Fitting'
<1> USE DEF IInv, WikiParameters
<1>1. ASSUME NEW p \in Keepers, Stamp(p) PROVE Fitting'
  BY <1>1 DEF Stamp, Goto, Sees, Leave, Nothing, NoJob, wikiFiles, Fitting, Fits, WikiTypeOK,
     Inside, Jobs, Exclusive
<1>2. ASSUME NEW p \in Keepers, Enter(p) PROVE Fitting'
  BY <1>2 DEF Enter, Goto, First, wikiFiles, Fitting, Fits, WikiTypeOK, Inside, Jobs, Exclusive
<1>3. ASSUME NEW p \in Keepers, GiveUp(p) PROVE Fitting'
  BY <1>3 DEF GiveUp, Leave, Goto, Sees, Nothing, NoJob, wikiFiles, Fitting, Fits, WikiTypeOK,
     Inside, Jobs, Exclusive
<1>4. ASSUME NEW p \in Keepers, ReleaseWiki(p) PROVE Fitting'
  <2>1. CASE at' = [at EXCEPT ![p] = "lock"] /\ job' = [job EXCEPT ![p].again = TRUE]
    BY <2>1 DEF Fitting, Fits, WikiTypeOK, Jobs
  <2>2. CASE at' = [at EXCEPT ![p] = "idle"] /\ job' = [job EXCEPT ![p] = NoJob]
    BY <2>2 DEF Fitting, Fits, WikiTypeOK, NoJob
  <2> QED BY <1>4, <2>1, <2>2 DEF ReleaseWiki, Leave, Goto
<1>5. ASSUME NEW p \in Keepers, Read(p) PROVE Fitting'
  BY <1>5 DEF Read, Goto, Sees, wikiFiles, Fitting, Fits, WikiTypeOK, Inside, Jobs, Exclusive
<1>6. ASSUME NEW p \in Keepers, Write(p) PROVE Fitting'
  BY <1>6 DEF Write, Goto, Sees, Nothing, Fitting, Fits, WikiTypeOK, Inside, Jobs, Exclusive
<1>7. ASSUME NEW p \in Keepers, Unlink(p) PROVE Fitting'
  BY <1>7 DEF Unlink, Goto, Fitting, Fits, WikiTypeOK, Inside, Jobs, Exclusive
<1>8. ASSUME NEW p \in Keepers, WriteEnvironment(p) PROVE Fitting'
  BY <1>8 DEF WriteEnvironment, Goto, Sees, Nothing, Fitting, Fits, WikiTypeOK, Inside, Jobs,
     Exclusive
<1>9. ASSUME NEW p \in Keepers, Scan(p) PROVE Fitting'
  BY <1>9 DEF Scan, Goto, Sees, wikiFiles, Fitting, Fits, WikiTypeOK, Inside, Jobs, Exclusive
<1>10. ASSUME NEW p \in Keepers, WriteIndex(p) PROVE Fitting'
  BY <1>10 DEF WriteIndex, Goto, Sees, Nothing, Fitting, Fits, WikiTypeOK, Inside, Jobs,
     Exclusive
<1>11. ASSUME NEW p \in Keepers, ReadLog(p) PROVE Fitting'
  BY <1>11 DEF ReadLog, Goto, Sees, wikiFiles, Fitting, Fits, WikiTypeOK, Inside, Jobs, Exclusive
<1>12. ASSUME NEW p \in Keepers, AppendLog(p) PROVE Fitting'
  BY <1>12 DEF AppendLog, Goto, Sees, Nothing, Fitting, Fits, WikiTypeOK, Inside, Jobs, Exclusive
<1>13. ASSUME NEW p \in Keepers, KillKeeper(p) PROVE Fitting'
  BY <1>13 DEF KillKeeper, Leave, Goto, Sees, Nothing, NoJob, wikiFiles, Fitting, Fits, WikiTypeOK,
     Inside, Jobs, Exclusive
<1>14. ASSUME NEW p \in Keepers, Begin(p) PROVE Fitting'
  BY <1>14, BeginShape DEF Shape, wikiFiles, Fitting, Fits, WikiTypeOK, Inside, Jobs, Exclusive
<1>15. CASE Edit
  BY <1>15 DEF Edit, Fitting, Fits, WikiTypeOK, Inside, Jobs, Exclusive
<1>16. CASE UNCHANGED wikiVars
  BY <1>16 DEF wikiVars, Fitting, Fits, WikiTypeOK, Inside, Jobs, Exclusive
<1>17. ASSUME NEW p \in Keepers, RaiseInside(p) PROVE Fitting'
  BY <1>17 DEF RaiseInside, Leave, Goto, Sees, Nothing, NoJob, wikiFiles, Fitting, Fits, WikiTypeOK,
     Inside, Jobs, Exclusive
<1> QED
  BY <1>1, <1>2, <1>3, <1>4, <1>5, <1>6, <1>7, <1>8, <1>9, <1>10, <1>11, <1>12, <1>13,
     <1>14, <1>15, <1>16, <1>17 DEF WikiNext, WikiStep

\* Every step keeps the index current where it has to be.
LEMMA IndexKeptStep ==
  ASSUME WikiParameters, IInv, [WikiNext]_wikiVars, WikiTypeOK'
  PROVE  IndexKept'
<1> USE DEF IInv, WikiParameters
<1>1. ASSUME NEW p \in Keepers, Stamp(p) PROVE IndexKept'
  BY <1>1 DEF Stamp, Goto, Sees, Leave, Nothing, NoJob, wikiFiles, IndexKept, Indexes,
     Unlisted, Present, WikiTypeOK, Inside, Exclusive, Fitting, Fits, IndexFollowsPages, Jobs
<1>2. ASSUME NEW p \in Keepers, Enter(p) PROVE IndexKept'
  BY <1>2 DEF Enter, Goto, First, wikiFiles, IndexKept, Indexes, Unlisted, Present, WikiTypeOK, Inside,
     Exclusive, Fitting, Fits, IndexFollowsPages, Jobs
<1>3. ASSUME NEW p \in Keepers, GiveUp(p) PROVE IndexKept'
  BY <1>3 DEF GiveUp, Leave, Goto, Sees, Nothing, NoJob, wikiFiles, IndexKept, Indexes,
     Unlisted, Present, WikiTypeOK, Inside, Exclusive, Fitting, Fits, IndexFollowsPages, Jobs
<1>4. ASSUME NEW p \in Keepers, ReleaseWiki(p) PROVE IndexKept'
  <2>1. at[p] = "release" /\ UNCHANGED <<pages, index, indexed, behind>>
    BY <1>4 DEF ReleaseWiki, wikiFiles
  <2>2. /\ at'[p] \in {"lock", "idle"}
        /\ \A q \in Keepers \ {p} : at'[q] = at[q] /\ job'[q] = job[q] /\ seen'[q] = seen[q]
    BY <1>4 DEF ReleaseWiki, Leave, Goto, Sees, WikiTypeOK
  <2>3. Present' = Present
    BY <2>1 DEF Present
  <2>4. \A q \in Keepers \ {p} : Indexes(q)'
    BY <2>1, <2>2, <2>3 DEF IndexKept, Indexes, Unlisted
  <2>5. Indexes(p)'
    BY <2>2 DEF Indexes, Inside
  <2>6. ~behind => index = Present
    BY <2>1 DEF IndexKept, Indexes, Unlisted, Inside
  <2> QED BY <2>1, <2>3, <2>4, <2>5, <2>6 DEF IndexKept, IndexFollowsPages
<1>5. ASSUME NEW p \in Keepers, Read(p) PROVE IndexKept'
  BY <1>5 DEF Read, Goto, Sees, wikiFiles, IndexKept, Indexes, Unlisted, Present, WikiTypeOK, Inside,
     Exclusive, Fitting, Fits, IndexFollowsPages, Jobs
<1>6. ASSUME NEW p \in Keepers, Write(p) PROVE IndexKept'
  BY <1>6 DEF Write, Goto, Sees, Nothing, IndexKept, Indexes, Unlisted, Present, WikiTypeOK, Inside,
     Exclusive, Fitting, Fits, IndexFollowsPages, Jobs
<1>7. ASSUME NEW p \in Keepers, Unlink(p) PROVE IndexKept'
  BY <1>7 DEF Unlink, Goto, IndexKept, Indexes, Unlisted, Present, WikiTypeOK, Inside, Exclusive,
     Fitting, Fits, IndexFollowsPages, Jobs
<1>8. ASSUME NEW p \in Keepers, WriteEnvironment(p) PROVE IndexKept'
  BY <1>8 DEF WriteEnvironment, Goto, Sees, Nothing, IndexKept, Indexes, Unlisted, Present, WikiTypeOK,
     Inside, Exclusive, Fitting, Fits, IndexFollowsPages, Jobs
<1>9. ASSUME NEW p \in Keepers, Scan(p) PROVE IndexKept'
  BY <1>9 DEF Scan, Goto, Sees, wikiFiles, IndexKept, Indexes, Unlisted, Present, WikiTypeOK, Inside,
     Exclusive, Fitting, Fits, IndexFollowsPages, Jobs
<1>10. ASSUME NEW p \in Keepers, WriteIndex(p) PROVE IndexKept'
  BY <1>10 DEF WriteIndex, Goto, Sees, Nothing, IndexKept, Indexes, Unlisted, Present, WikiTypeOK,
     Inside, Exclusive, Fitting, Fits, IndexFollowsPages, Jobs
<1>11. ASSUME NEW p \in Keepers, ReadLog(p) PROVE IndexKept'
  BY <1>11 DEF ReadLog, Goto, Sees, wikiFiles, IndexKept, Indexes, Unlisted, Present, WikiTypeOK, Inside,
     Exclusive, Fitting, Fits, IndexFollowsPages, Jobs
<1>12. ASSUME NEW p \in Keepers, AppendLog(p) PROVE IndexKept'
  BY <1>12 DEF AppendLog, Goto, Sees, Nothing, IndexKept, Indexes, Unlisted, Present, WikiTypeOK, Inside,
     Exclusive, Fitting, Fits, IndexFollowsPages, Jobs
<1>13. ASSUME NEW p \in Keepers, KillKeeper(p) PROVE IndexKept'
  BY <1>13 DEF KillKeeper, Leave, Goto, Sees, Nothing, NoJob, wikiFiles, Free, Orphan, IndexKept,
     Indexes, Unlisted, Present, WikiTypeOK, Inside, Exclusive, Fitting, Fits, IndexFollowsPages, Jobs
<1>14. ASSUME NEW p \in Keepers, Begin(p) PROVE IndexKept'
  <2>1. /\ UNCHANGED <<lock, pages, index, indexed, behind>>
        /\ at'[p] \in {"lock", "stamp"}
        /\ \A q \in Keepers \ {p} : at'[q] = at[q] /\ job'[q] = job[q] /\ seen'[q] = seen[q]
    BY <1>14, BeginShape DEF Shape, wikiFiles, WikiTypeOK
  <2>2. Present' = Present
    BY <2>1 DEF Present
  <2>3. \A q \in Keepers \ {p} : Indexes(q)'
    BY <2>1, <2>2 DEF IndexKept, Indexes, Unlisted
  <2>4. Indexes(p)'
    BY <2>1 DEF Indexes, Inside
  <2>5. IndexFollowsPages'
    BY <2>1, <2>2 DEF IndexKept, IndexFollowsPages
  <2> QED BY <2>3, <2>4, <2>5 DEF IndexKept
<1>15. CASE Edit
  BY <1>15 DEF Edit, IndexKept, Indexes, Unlisted, Present, WikiTypeOK, Inside, Exclusive, Fitting,
     Fits, IndexFollowsPages, Jobs
<1>16. CASE UNCHANGED wikiVars
  BY <1>16 DEF wikiVars, IndexKept, Indexes, Unlisted, Present, WikiTypeOK, Inside, Exclusive, Fitting,
     Fits, IndexFollowsPages, Jobs
<1>17. ASSUME NEW p \in Keepers, RaiseInside(p) PROVE IndexKept'
  <2>1. /\ at[p] \in Inside /\ behind' = (behind \/ Unlisted(p))
        /\ UNCHANGED <<pages, index, calls>>
        /\ at' = [at EXCEPT ![p] = "idle"] /\ job' = [job EXCEPT ![p] = NoJob]
        /\ seen' = [seen EXCEPT ![p] = Nothing]
    BY <1>17 DEF RaiseInside, Leave, Goto, Sees, wikiFiles
  <2>2. /\ at'[p] = "idle"
        /\ \A q \in Keepers \ {p} : at'[q] = at[q] /\ job'[q] = job[q] /\ seen'[q] = seen[q]
    BY <2>1 DEF WikiTypeOK
  <2>3. Present' = Present
    BY <2>1 DEF Present
  <2>4. \A q \in Keepers \ {p} : at'[q] \notin Inside /\ at'[q] # "index"
    BY <2>1, <2>2 DEF Exclusive, Inside
  <2>5. \A q \in Keepers : Indexes(q)'
    BY <2>2, <2>4 DEF Indexes, Inside
  <2>6. ~behind' => index = Present
    BY <2>1 DEF IndexKept, Indexes
  <2>7. IndexFollowsPages'
    BY <2>1, <2>3, <2>6 DEF IndexFollowsPages
  <2> QED BY <2>5, <2>7 DEF IndexKept
<1> QED
  BY <1>1, <1>2, <1>3, <1>4, <1>5, <1>6, <1>7, <1>8, <1>9, <1>10, <1>11, <1>12, <1>13,
     <1>14, <1>15, <1>16, <1>17 DEF WikiNext, WikiStep

\* Nobody changes what a process inside has read.
LEMMA KnowingStep ==
  ASSUME WikiParameters, IInv, [WikiNext]_wikiVars, WikiTypeOK'
  PROVE  Knowing'
<1> USE DEF IInv, WikiParameters
<1>1. ASSUME NEW p \in Keepers, Stamp(p) PROVE Knowing'
  BY <1>1 DEF Stamp, Goto, Sees, Leave, Nothing, NoJob, wikiFiles, Knowing, Knows, WikiTypeOK,
     Inside, Exclusive, Fitting, Fits, Jobs, Sights
<1>2. ASSUME NEW p \in Keepers, Enter(p) PROVE Knowing'
  BY <1>2 DEF Enter, Goto, First, wikiFiles, Knowing, Knows, WikiTypeOK, Inside, Exclusive,
     Fitting, Fits, Jobs, Sights
<1>3. ASSUME NEW p \in Keepers, GiveUp(p) PROVE Knowing'
  BY <1>3 DEF GiveUp, Leave, Goto, Sees, Nothing, NoJob, wikiFiles, Knowing, Knows, WikiTypeOK,
     Inside, Exclusive, Fitting, Fits, Jobs, Sights
<1>4. ASSUME NEW p \in Keepers, ReleaseWiki(p) PROVE Knowing'
  BY <1>4 DEF ReleaseWiki, Leave, Goto, Sees, Nothing, NoJob, wikiFiles, Knowing, Knows, WikiTypeOK,
     Inside, Exclusive, Fitting, Fits, Jobs, Sights
<1>5. ASSUME NEW p \in Keepers, Read(p) PROVE Knowing'
  BY <1>5 DEF Read, Goto, Sees, wikiFiles, Knowing, Knows, WikiTypeOK, Inside, Exclusive, Fitting,
     Fits, Jobs, Sights
<1>6. ASSUME NEW p \in Keepers, Write(p) PROVE Knowing'
  BY <1>6 DEF Write, Goto, Sees, Nothing, Knowing, Knows, WikiTypeOK, Inside, Exclusive,
     Fitting, Fits, Jobs, Sights
<1>7. ASSUME NEW p \in Keepers, Unlink(p) PROVE Knowing'
  BY <1>7 DEF Unlink, Goto, Knowing, Knows, WikiTypeOK, Inside, Exclusive, Fitting, Fits,
     Jobs, Sights
<1>8. ASSUME NEW p \in Keepers, WriteEnvironment(p) PROVE Knowing'
  BY <1>8 DEF WriteEnvironment, Goto, Sees, Nothing, Knowing, Knows, WikiTypeOK, Inside,
     Exclusive, Fitting, Fits, Jobs, Sights
<1>9. ASSUME NEW p \in Keepers, Scan(p) PROVE Knowing'
  BY <1>9 DEF Scan, Goto, Sees, wikiFiles, Knowing, Knows, WikiTypeOK, Inside, Exclusive, Fitting,
     Fits, Jobs, Sights
<1>10. ASSUME NEW p \in Keepers, WriteIndex(p) PROVE Knowing'
  BY <1>10 DEF WriteIndex, Goto, Sees, Nothing, Knowing, Knows, WikiTypeOK, Inside, Exclusive,
     Fitting, Fits, Jobs, Sights
<1>11. ASSUME NEW p \in Keepers, ReadLog(p) PROVE Knowing'
  BY <1>11 DEF ReadLog, Goto, Sees, wikiFiles, Knowing, Knows, WikiTypeOK, Inside, Exclusive,
     Fitting, Fits, Jobs, Sights
<1>12. ASSUME NEW p \in Keepers, AppendLog(p) PROVE Knowing'
  BY <1>12 DEF AppendLog, Goto, Sees, Nothing, Knowing, Knows, WikiTypeOK, Inside, Exclusive,
     Fitting, Fits, Jobs, Sights
<1>13. ASSUME NEW p \in Keepers, KillKeeper(p) PROVE Knowing'
  BY <1>13 DEF KillKeeper, Leave, Goto, Sees, Nothing, NoJob, wikiFiles, Knowing, Knows, WikiTypeOK,
     Inside, Exclusive, Fitting, Fits, Jobs, Sights
<1>14. ASSUME NEW p \in Keepers, Begin(p) PROVE Knowing'
  <2>1. Shape(p) /\ UNCHANGED <<pages, entries>>
    BY <1>14, BeginShape DEF Shape, wikiFiles
  <2>2. /\ at'[p] \in {"lock", "stamp"}
        /\ \A q \in Keepers \ {p} : at'[q] = at[q] /\ job'[q] = job[q] /\ seen'[q] = seen[q]
    BY <2>1 DEF Shape, WikiTypeOK
  <2> QED BY <2>1, <2>2 DEF Knowing, Knows
<1>15. CASE Edit
  BY <1>15 DEF Edit, Knowing, Knows, WikiTypeOK, Inside, Exclusive, Fitting, Fits, Jobs, Sights
<1>16. CASE UNCHANGED wikiVars
  BY <1>16 DEF wikiVars, Knowing, Knows, WikiTypeOK, Inside, Exclusive, Fitting, Fits, Jobs, Sights
<1>17. ASSUME NEW p \in Keepers, RaiseInside(p) PROVE Knowing'
  BY <1>17 DEF RaiseInside, Leave, Goto, Sees, Nothing, NoJob, wikiFiles, Knowing, Knows, WikiTypeOK,
     Inside, Exclusive, Fitting, Fits, Jobs, Sights
<1> QED
  BY <1>1, <1>2, <1>3, <1>4, <1>5, <1>6, <1>7, <1>8, <1>9, <1>10, <1>11, <1>12, <1>13,
     <1>14, <1>15, <1>16, <1>17 DEF WikiNext, WikiStep

\* Every step keeps the dates in order.
LEMMA DatedStep ==
  ASSUME WikiParameters, IInv, [WikiNext]_wikiVars, WikiTypeOK'
  PROVE  Dated'
<1> USE DEF IInv, WikiParameters
<1>1. ASSUME NEW p \in Keepers, Stamp(p) PROVE Dated'
  <2> USE <1>1 DEF Stamp, Goto, Sees, Leave, wikiFiles, WikiTypeOK, Environments, Sights
  <2>1. CASE seen[p].stamp >= memory
    <3>1. UNCHANGED <<memory, env>> /\ (~late' => ~late)
      BY <2>1
    <3>2. seen' = [seen EXCEPT ![p] = Nothing] /\ job' = [job EXCEPT ![p] = NoJob]
      BY <2>1
    <3>3. seen'[p].memory = 0 /\ job'[p].op = "none"
      BY <3>2 DEF Nothing, NoJob
    <3>4. Dates(p)'
      BY <3>1, <3>3 DEF Dates, WikiParameters
    <3>5. ASSUME NEW q \in Keepers, q # p PROVE Dates(q)'
      BY <2>1, <3>1, <3>2, <3>5 DEF Dates, Dated
    <3> QED BY <3>1, <3>4, <3>5 DEF Dated
  <2>2. CASE ~(seen[p].stamp >= memory)
    <3>1. seen'[p] = [seen[p] EXCEPT !.stamp = memory] /\ UNCHANGED <<memory, env, job>>
      BY <2>2
    <3>2. seen'[p].memory = seen[p].memory /\ seen'[p].stamp = memory
      BY <3>1
    <3>3. ~late' => ~late /\ seen[p].memory = memory
      BY <2>2
    <3>4. Dates(p)'
      BY <3>1, <3>2, <3>3 DEF Dates, Dated
    <3>5. ASSUME NEW q \in Keepers, q # p PROVE Dates(q)'
      BY <2>2, <3>1, <3>3, <3>5 DEF Dates, Dated
    <3> QED BY <3>1, <3>3, <3>4, <3>5 DEF Dated
  <2> QED BY <2>1, <2>2
<1>2. ASSUME NEW p \in Keepers, Enter(p) PROVE Dated'
  BY <1>2 DEF Enter, Goto, First, wikiFiles, Dated, Dates, WikiTypeOK, Environments, Sights,
     Fitting, Fits, Inside
<1>3. ASSUME NEW p \in Keepers, GiveUp(p) PROVE Dated'
  BY <1>3 DEF GiveUp, Leave, Goto, Sees, Nothing, NoJob, wikiFiles, Dated, Dates, WikiTypeOK,
     Environments, Sights, Fitting, Fits, Inside
<1>4. ASSUME NEW p \in Keepers, ReleaseWiki(p) PROVE Dated'
  <2>1. ASSUME NEW q \in Keepers, q # p PROVE Dates(q)'
    BY <1>4, <2>1 DEF ReleaseWiki, Leave, Goto, Sees, wikiFiles, Dated, Dates, WikiTypeOK
  <2>2. Dates(p)'
    <3>1. CASE job[p].op \in {"add", "delete", "refresh"} /\ ~job[p].again
      <4>1. job'[p].op = job[p].op
        BY <1>4, <3>1 DEF ReleaseWiki, WikiTypeOK, Jobs
      <4>2. UNCHANGED <<seen, memory>>
        BY <1>4, <3>1 DEF ReleaseWiki, wikiFiles
      <4> QED BY <3>1, <4>1, <4>2 DEF Dated, Dates
    <3>2. CASE ~(job[p].op \in {"add", "delete", "refresh"} /\ ~job[p].again)
      BY <1>4, <3>2 DEF ReleaseWiki, Leave, Goto, Sees, Nothing, NoJob, wikiFiles, Dated,
         Dates, WikiTypeOK
    <3> QED BY <3>1, <3>2
  <2> QED BY <1>4, <2>1, <2>2 DEF ReleaseWiki, wikiFiles, Dated
<1>5. ASSUME NEW p \in Keepers, Read(p) PROVE Dated'
  BY <1>5 DEF Read, Goto, Sees, wikiFiles, Dated, Dates, WikiTypeOK, Environments, Sights,
     Fitting, Fits, Inside
<1>6. ASSUME NEW p \in Keepers, Write(p) PROVE Dated'
  BY <1>6 DEF Write, Goto, Sees, Nothing, Dated, Dates, WikiTypeOK, Environments, Sights,
     Fitting, Fits, Inside
<1>7. ASSUME NEW p \in Keepers, Unlink(p) PROVE Dated'
  BY <1>7 DEF Unlink, Goto, Dated, Dates, WikiTypeOK, Environments, Sights, Fitting, Fits,
     Inside
<1>8. ASSUME NEW p \in Keepers, WriteEnvironment(p) PROVE Dated'
  BY <1>8 DEF WriteEnvironment, Goto, Sees, Nothing, Dated, Dates, WikiTypeOK, Environments,
     Sights, Fitting, Fits, Inside
<1>9. ASSUME NEW p \in Keepers, Scan(p) PROVE Dated'
  BY <1>9 DEF Scan, Goto, Sees, wikiFiles, Dated, Dates, WikiTypeOK, Environments, Sights,
     Fitting, Fits, Inside
<1>10. ASSUME NEW p \in Keepers, WriteIndex(p) PROVE Dated'
  BY <1>10 DEF WriteIndex, Goto, Sees, Nothing, Dated, Dates, WikiTypeOK, Environments,
     Sights, Fitting, Fits, Inside
<1>11. ASSUME NEW p \in Keepers, ReadLog(p) PROVE Dated'
  BY <1>11 DEF ReadLog, Goto, Sees, wikiFiles, Dated, Dates, WikiTypeOK, Environments, Sights,
     Fitting, Fits, Inside
<1>12. ASSUME NEW p \in Keepers, AppendLog(p) PROVE Dated'
  BY <1>12 DEF AppendLog, Goto, Sees, Nothing, Dated, Dates, WikiTypeOK, Environments, Sights,
     Fitting, Fits, Inside
<1>13. ASSUME NEW p \in Keepers, KillKeeper(p) PROVE Dated'
  BY <1>13 DEF KillKeeper, Leave, Goto, Sees, Nothing, NoJob, wikiFiles, Dated, Dates, WikiTypeOK,
     Environments, Sights, Fitting, Fits, Inside
<1>14. ASSUME NEW p \in Keepers, Begin(p) PROVE Dated'
  <2>1. ASSUME NEW q \in Keepers, q # p PROVE Dates(q)'
    BY <1>14, <2>1, BeginShape DEF Shape, wikiFiles, Dated, Dates, WikiTypeOK
  <2>2. Dates(p)'
    <3>1. seen'[p].memory = seen[p].memory \/ seen'[p].memory = memory
      BY <1>14, BeginShape DEF Shape
    <3>2. seen'[p].memory <= memory /\ memory' = memory
      BY <1>14, <3>1, BeginShape DEF Shape, wikiFiles, Dated, Dates, WikiTypeOK
    <3>3. ~(job'[p].op = "session-start" /\ at'[p] \in {"lock", "environment"})
      BY <1>14, BeginShape DEF Shape
    <3> QED BY <3>2, <3>3 DEF Dates
  <2> QED BY <1>14, <2>1, <2>2, BeginShape DEF Shape, wikiFiles, Dated
<1>15. CASE Edit
  BY <1>15 DEF Edit, Dated, Dates, WikiTypeOK, Environments, Sights, Fitting, Fits, Inside
<1>16. CASE UNCHANGED wikiVars
  BY <1>16 DEF wikiVars, Dated, Dates, WikiTypeOK, Environments, Sights, Fitting, Fits, Inside
<1>17. ASSUME NEW p \in Keepers, RaiseInside(p) PROVE Dated'
  BY <1>17 DEF RaiseInside, Leave, Goto, Sees, Nothing, NoJob, wikiFiles, Dated, Dates, WikiTypeOK,
     Environments, Sights, Fitting, Fits, Inside
<1> QED
  BY <1>1, <1>2, <1>3, <1>4, <1>5, <1>6, <1>7, <1>8, <1>9, <1>10, <1>11, <1>12, <1>13,
     <1>14, <1>15, <1>16, <1>17 DEF WikiNext, WikiStep

\* The first state satisfies the inductive invariant.
LEMMA InitHolds ==
  ASSUME WikiParameters
  PROVE  WikiInit => IInv
<1> SUFFICES ASSUME WikiInit PROVE IInv
  OBVIOUS
<1>1. WikiTypeOK
  <2>1. 0 \in 0 .. MaxEdits /\ 0 \in 0 .. MaxCalls
    BY DEF WikiParameters
  <2> QED BY <2>1, JobType, NothingType DEF WikiInit, WikiTypeOK, Locations, Environments
<1>2. Exclusive
  BY DEF WikiInit, Exclusive, Inside, Free, WikiParameters
<1>3. Fitting
  BY DEF WikiInit, Fitting, Fits, NoJob
<1>4. IndexKept
  BY DEF WikiInit, IndexKept, IndexFollowsPages, Indexes, Inside, Present
<1>5. Knowing
  BY DEF WikiInit, Knowing, Knows
<1>6. Dated
  BY DEF WikiInit, Dated, Dates, Nothing, NoJob
<1> QED BY <1>1, <1>2, <1>3, <1>4, <1>5, <1>6 DEF IInv

\* Every step preserves it.
LEMMA StepHolds ==
  ASSUME WikiParameters
  PROVE  IInv /\ [WikiNext]_wikiVars => IInv'
<1> SUFFICES ASSUME IInv, [WikiNext]_wikiVars PROVE IInv'
  OBVIOUS
<1>1. WikiTypeOK'
  BY TypeStep DEF IInv
<1> QED BY <1>1, ExclusiveStep, FittingStep, IndexKeptStep, KnowingStep, DatedStep DEF IInv

\* The inductive invariant holds throughout.
LEMMA Invariance ==
  ASSUME WikiParameters
  PROVE  WikiSpec => []IInv
<1> QED BY InitHolds, StepHolds, PTL DEF WikiSpec

\* Every variable of the wiki keeps its type.
THEOREM TypeCorrect ==
  ASSUME WikiParameters
  PROVE  WikiSpec => []WikiTypeOK
<1>1. IInv => WikiTypeOK
  BY DEF IInv
<1> QED BY Invariance, <1>1, PTL

\* A free lock means a current index.md, whichever calls time out, fail to find their page,
\* overlap, are killed or raise, unless one raised between a page and its index and none has
\* written the index since (storage.py 48-71, 389-424).
THEOREM IndexTheorem ==
  ASSUME WikiParameters
  PROVE  WikiSpec => []IndexFollowsPages
<1>1. IInv => IndexFollowsPages
  BY DEF IInv, IndexKept
<1> QED BY Invariance, <1>1, PTL

\* Barring a replacement of the project memory between a session start's read of it and the
\* date it takes, an environment page never passes for newer than it is (lifecycle.py 235-330).
THEOREM EnvironmentTheorem ==
  ASSUME WikiParameters
  PROVE  WikiSpec => []EnvironmentHeals
<1>1. IInv => EnvironmentHeals
  <2> SUFFICES ASSUME IInv, ~late, env.stamp >= memory PROVE env.holds = memory
    BY DEF EnvironmentHeals
  <2>1. env.stamp \in Nat /\ memory \in Nat
    BY DEF IInv, WikiTypeOK, Environments
  <2> QED BY <2>1 DEF IInv, Dated
<1> QED BY Invariance, <1>1, PTL

\* A page only grows or goes, however many calls ingest into it at once, except those that
\* session ends own (ingest.py 50-64, 103-145).
THEOREM Appended ==
  ASSUME WikiParameters
  PROVE  WikiSpec => NothingReplaced
<1> DEFINE Grows ==
  \A g \in Pages \ SessionLogs : pages[g] \subseteq pages'[g] \/ pages'[g] = {}
<1>1. IInv /\ [WikiNext]_wikiVars => [Grows]_wikiVars
  <2> SUFFICES ASSUME IInv, WikiNext PROVE Grows
    OBVIOUS
  <2>1. ASSUME NEW p \in Keepers, Write(p) PROVE Grows
    <3> SUFFICES ASSUME NEW g \in Pages \ SessionLogs, g = job[p].page
                 PROVE  pages[g] \subseteq pages'[g]
      BY <2>1 DEF Write, IInv, WikiTypeOK
    <3>1. job[p].op # "session-end"
      BY DEF IInv, Fitting, Fits
    <3>2. seen[p].page = pages[g]
      BY <2>1, <3>1 DEF IInv, Knowing, Knows, Write
    <3> QED BY <2>1, <3>1, <3>2 DEF Write, Merged, IInv, WikiTypeOK
  <2>2. ASSUME NEW p \in Keepers, Unlink(p) PROVE Grows
    BY <2>2 DEF Unlink, IInv, WikiTypeOK
  <2>3. ASSUME NEW p \in Keepers, Begin(p) PROVE Grows
    BY <2>3, BeginShape DEF IInv, Shape, wikiFiles
  <2>4. ASSUME NEW p \in Keepers, WikiStep(p), ~Write(p), ~Unlink(p) PROVE Grows
    BY <2>4 DEF WikiStep, Stamp, Enter, GiveUp, ReleaseWiki, RaiseInside, Read, WriteEnvironment, Scan,
       WriteIndex,
       ReadLog, AppendLog, wikiFiles
  <2>5. ASSUME NEW p \in Keepers, KillKeeper(p) PROVE Grows
    BY <2>5 DEF KillKeeper, wikiFiles
  <2>6. CASE Edit
    BY <2>6 DEF Edit
  <2> QED BY <2>1, <2>2, <2>3, <2>4, <2>5, <2>6 DEF WikiNext
<1> QED BY Invariance, <1>1, PTL DEF WikiSpec, NothingReplaced

\* No append takes an entry out of log.md (storage.py 427-445).
THEOREM LogTheorem ==
  ASSUME WikiParameters
  PROVE  WikiSpec => LogOnlyGrows
<1>1. IInv /\ [WikiNext]_wikiVars => [entries \subseteq entries']_wikiVars
  <2> SUFFICES ASSUME IInv, WikiNext PROVE entries \subseteq entries'
    OBVIOUS
  <2>1. ASSUME NEW p \in Keepers, AppendLog(p) PROVE entries \subseteq entries'
    BY <2>1 DEF AppendLog, IInv, Knowing, Knows
  <2>2. ASSUME NEW p \in Keepers, Begin(p) PROVE entries \subseteq entries'
    BY <2>2, BeginShape DEF IInv, Shape, wikiFiles
  <2>3. ASSUME NEW p \in Keepers, WikiStep(p), ~AppendLog(p) PROVE entries \subseteq entries'
    BY <2>3 DEF WikiStep, Stamp, Enter, GiveUp, ReleaseWiki, RaiseInside, Read, Write, Unlink,
       WriteEnvironment, Scan,
       WriteIndex, ReadLog, wikiFiles
  <2>4. ASSUME NEW p \in Keepers, KillKeeper(p) PROVE entries \subseteq entries'
    BY <2>4 DEF KillKeeper, wikiFiles
  <2>5. CASE Edit
    BY <2>5 DEF Edit
  <2> QED BY <2>1, <2>2, <2>3, <2>4, <2>5 DEF WikiNext
<1> QED BY Invariance, <1>1, PTL DEF WikiSpec, LogOnlyGrows
=============================================================================
