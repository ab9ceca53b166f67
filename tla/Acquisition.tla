----------------------------- MODULE Acquisition -----------------------------
(***************************************************************************)
(* credlens data fetch, verify and audit: raw files are downloaded from    *)
(* public sources, with retries, and recorded by hash in one manifest      *)
(* (data/metadata/file_manifest.csv).                                      *)
(*                                                                         *)
(* A content is a sequence of observations [period, version]: a series has *)
(* one per period, a plain file or an archive a single one of period 0.    *)
(* The hash of a file is its content.  One command runs at a time; it may  *)
(* be killed, or stopped by an exception it does not catch, at any step.   *)
(***************************************************************************)
EXTENDS Integers, Sequences, SequencesExt

CONSTANTS
    Sources,        \* source ids
    Registries,     \* contents of source_registry.yaml: sets of sources
    Kind,           \* Kind[s]: "archive", "series" or "restricted"
    MaxRetries,     \* config.data.http_max_retries
    LastDay,        \* the days asked of a series are 1..LastDay
    PeriodDays,     \* days of a period (a month) of a series
    WindowDays,     \* config.data.bcb_max_days_per_request
    MaxVersion      \* bound: contents a source ever publishes

AcquisitionAssumption ==
    /\ IsFiniteSet(Sources)
    /\ Registries \subseteq SUBSET Sources
    /\ Kind \in [Sources -> {"archive", "series", "restricted"}]
    /\ {MaxRetries, LastDay, PeriodDays, WindowDays, MaxVersion} \subseteq Nat \ {0}

VARIABLES
    registry,       \* the registered sources; never changes
    published,      \* published[s]: version the source's server holds
    disk,           \* disk[f]: content of the raw file, or NoFile
    manifest,       \* manifest[f]: entry of the file, or NoEntry
    evidence,       \* sources in data_quality_metrics.json
    job             \* the running command, or the exit code of the last one

acquisitionVars == <<registry, published, disk, manifest, evidence, job>>

NoFile == <<>>                  \* no content is empty
Torn == <<[period |-> 0, version |-> 0]>>
NoEntry == [sha |-> NoFile, audited |-> NoFile]

Series == {s \in Sources : Kind[s] = "series"}
Files == Sources \X {"file"} \cup {s \in Sources : Kind[s] = "archive"} \X {"member"}
FilesOf(s) == {f \in Files : f[1] = s}
NoEntries == [f \in Files |-> NoEntry]

Exit(code) == [pc |-> "idle", code |-> code]
Idle == job.pc = "idle"
Source == job.todo[1]

Init ==
    /\ registry \in Registries
    /\ published = [s \in Sources |-> 1]
    /\ disk = [f \in Files |-> NoFile]
    /\ manifest = NoEntries
    /\ evidence = {}
    /\ job = Exit(0)

(* The periods a window of days touches: the server answers by whole months. *)
PeriodOf(day) == (day - 1) \div PeriodDays + 1
Answer(s, first, end) ==
    [i \in 1..(PeriodOf(end) - PeriodOf(first) + 1) |->
        [period |-> PeriodOf(first) + i - 1, version |-> published[s]]]

WindowEnd(day) == IF day + WindowDays - 1 < LastDay THEN day + WindowDays - 1 ELSE LastDay

(* Only exact repeats go: a period whose value changed between two windows *)
(* stays twice.                                                            *)
DeduplicateNone(obs) == obs         \* a slip: boundary duplicates stay
Deduplicate(obs) ==
    LET kept[n \in 0..Len(obs)] ==
            IF n = 0 THEN <<>>
            ELSE LET before == kept[n - 1]
                 IN  IF Contains(before, obs[n]) THEN before ELSE Append(before, obs[n])
    IN  kept[Len(obs)]

------------------------------------------------------------------------------
(* data fetch *)

Begin(targets, force) ==
    /\ Idle
    /\ job' = [pc |-> "next", todo |-> targets, force |-> force, attempt |-> 1, day |-> 1,
               got |-> <<>>, entries |-> NoEntries, new |-> NoEntries, failed |-> FALSE]
    /\ UNCHANGED <<registry, published, disk, manifest, evidence>>

BeginFetch ==
    \E force \in BOOLEAN, targets \in {<<s>> : s \in registry} \cup {SetToSeq(Series \cap registry)} :
        Begin(targets, force)

GiveUp == [job EXCEPT !.pc = "next", !.todo = Tail(@), !.failed = TRUE]
Entry(f) == [sha |-> disk'[f], audited |-> NoFile]
Overlay(old, new) == [f \in Files |-> IF new[f] # NoEntry THEN new[f] ELSE old[f]]
Done(entries) == [job EXCEPT !.pc = "next", !.todo = Tail(@), !.new = Overlay(@, entries)]
Exists(f) == disk[f] # NoFile

(* A restricted source is never asked; an archive is not when its file is there. *)
Refuse ==
    /\ job.pc = "next" /\ job.todo # <<>>
    /\ \/ Kind[Source] = "restricted"
       \/ Kind[Source] = "archive" /\ Exists(<<Source, "file">>) /\ ~job.force
    /\ job' = GiveUp
    /\ UNCHANGED <<registry, published, disk, manifest, evidence>>

Ask ==
    /\ job.pc = "next" /\ job.todo # <<>>
    /\ \/ Kind[Source] = "archive" /\ (Exists(<<Source, "file">>) => job.force)
       \/ Kind[Source] = "series"
    /\ job' = [job EXCEPT !.pc = "request", !.attempt = 1, !.day = 1,
                          !.got = <<>>, !.entries = NoEntries]
    /\ UNCHANGED <<registry, published, disk, manifest, evidence>>

(* A 4xx answer is final, but for a 429 to the downloader; what breaks is retried. *)
Final(answer) == answer = "refused" \/ (answer = "limited" /\ Kind[Source] = "series")
NextAttemptSame == job.attempt      \* a slip: the loop forgets to count
NextAttempt == job.attempt + 1

AttemptFails(answer) ==
    /\ job.pc = "request"
    /\ job' = IF Final(answer) \/ job.attempt = MaxRetries
              THEN GiveUp
              ELSE [job EXCEPT !.pc = "backoff", !.attempt = NextAttempt]
    /\ UNCHANGED <<registry, published, disk, manifest, evidence>>

Retry ==
    /\ job.pc = "backoff"
    /\ job' = [job EXCEPT !.pc = "request"]
    /\ UNCHANGED <<registry, published, disk, manifest, evidence>>

Install(f, content) == disk' = [disk EXCEPT ![f] = content]

DownloadArchive ==
    /\ job.pc = "request" /\ Kind[Source] = "archive"
    /\ Install(<<Source, "file">>, <<[period |-> 0, version |-> published[Source]]>>)
    /\ job' = [job EXCEPT !.pc = "extract",
                          !.entries = [@ EXCEPT ![<<Source, "file">>] = Entry(<<Source, "file">>)]]
    /\ UNCHANGED <<registry, published, manifest, evidence>>

FetchWindow ==
    /\ job.pc = "request" /\ Kind[Source] = "series" /\ job.day <= LastDay
    /\ LET end == WindowEnd(job.day) IN
       job' = [job EXCEPT !.got = @ \o Answer(Source, job.day, end),
                          !.day = end + 1, !.attempt = 1]
    /\ UNCHANGED <<registry, published, disk, manifest, evidence>>

StoreSeries ==
    /\ job.pc = "request" /\ Kind[Source] = "series" /\ job.day > LastDay
    /\ LET f == <<Source, "file">> IN
       IF Exists(f) /\ ~job.force
       THEN job' = GiveUp /\ UNCHANGED disk
       ELSE /\ Install(f, Deduplicate(job.got))
            /\ job' = Done([NoEntries EXCEPT ![f] = Entry(f)])
    /\ UNCHANGED <<registry, published, manifest, evidence>>

(* A member is extracted in place; a refused one costs the archive its entry. *)
KeepsMember == Exists(<<Source, "member">>) /\ ~job.force

RefuseMemberSkips == job' = Done(job.entries)      \* a slip: an existing member is fine as it is
RefuseMember == job' = GiveUp

OpenMember ==
    /\ job.pc = "extract"
    /\ IF KeepsMember
       THEN RefuseMember /\ UNCHANGED disk
       ELSE /\ Install(<<Source, "member">>, Torn)
            /\ job' = [job EXCEPT !.pc = "inflate"]
    /\ UNCHANGED <<registry, published, manifest, evidence>>

WriteMember ==
    /\ job.pc = "inflate"
    /\ Install(<<Source, "member">>, disk[<<Source, "file">>])
    /\ job' = Done([job.entries EXCEPT ![<<Source, "member">>] = Entry(<<Source, "member">>)])
    /\ UNCHANGED <<registry, published, manifest, evidence>>

(* The manifest is truncated and written, merged from what was read at the start. *)
MergeKeepsAudit(seen, new) ==       \* a slip: an entry keeps the counts of its predecessor
    [f \in Files |-> IF new[f] = NoEntry THEN seen[f] ELSE [new[f] EXCEPT !.audited = seen[f].audited]]
Merge(seen, new) == Overlay(seen, new)

CloseFetch ==
    /\ job.pc = "next" /\ job.todo = <<>>
    /\ LET code == IF job.failed THEN 1 ELSE 0 IN
       IF job.new = NoEntries
       THEN job' = Exit(code) /\ UNCHANGED manifest
       ELSE /\ manifest' = NoEntries
            /\ job' = [pc |-> "rows", code |-> code, audits |-> {},
                       rows |-> Merge(manifest, job.new)]
    /\ UNCHANGED <<registry, published, disk, evidence>>

WriteRows ==
    /\ job.pc = "rows"
    /\ manifest' = job.rows
    /\ job' = IF job.audits = {} THEN Exit(job.code) ELSE [pc |-> "metrics", audits |-> job.audits]
    /\ UNCHANGED <<registry, published, disk, evidence>>

------------------------------------------------------------------------------
(* data audit: the tables are profiled as they are on disk, and the whole  *)
(* manifest is written back.                                               *)

Audited(s) == IF Kind[s] = "archive" THEN <<s, "member">> ELSE <<s, "file">>

BeginAudit(targets) ==
    /\ Idle
    /\ LET audits == {s \in targets : manifest[Audited(s)] # NoEntry} IN
       /\ audits # {}
       /\ \A s \in audits : Exists(Audited(s)) /\ disk[Audited(s)] # Torn
       /\ manifest' = NoEntries
       /\ job' = [pc |-> "rows", code |-> 0, audits |-> audits,
                  rows |-> [f \in Files |-> IF f \in {Audited(s) : s \in audits}
                                            THEN [manifest[f] EXCEPT !.audited = disk[f]]
                                            ELSE manifest[f]]]
    /\ UNCHANGED <<registry, published, disk, evidence>>

(* The metrics file is replaced: it lists the sources of this audit only. *)
WriteMetrics ==
    /\ job.pc = "metrics"
    /\ evidence' = job.audits
    /\ job' = Exit(0)
    /\ UNCHANGED <<registry, published, disk, manifest>>

Audit == BeginAudit(registry) \/ \E s \in registry : BeginAudit({s})

------------------------------------------------------------------------------
(* What the commands do not control *)

Stop ==
    /\ ~Idle
    /\ job' = Exit(1)
    /\ UNCHANGED <<registry, published, disk, manifest, evidence>>

Publish ==
    /\ \E s \in registry : /\ published[s] < MaxVersion
                           /\ published' = [published EXCEPT ![s] = @ + 1]
    /\ UNCHANGED <<registry, disk, manifest, evidence, job>>

DeleteRaw ==
    /\ Idle
    /\ \E f \in Files : Exists(f) /\ disk' = [disk EXCEPT ![f] = NoFile]
    /\ UNCHANGED <<registry, published, manifest, evidence, job>>

Fail == \E answer \in {"limited", "refused", "broken"} : AttemptFails(answer)

Step ==
    \/ Refuse \/ Ask \/ Fail \/ Retry \/ DownloadArchive \/ FetchWindow \/ StoreSeries
    \/ OpenMember \/ WriteMember \/ CloseFetch \/ WriteRows \/ WriteMetrics

Next == BeginFetch \/ Audit \/ Step \/ Stop \/ Publish \/ DeleteRaw

Fairness == WF_acquisitionVars(Step)
Spec == Init /\ [][Next]_acquisitionVars /\ Fairness

------------------------------------------------------------------------------
(* data verify --source s: every entry of the source matches its file. *)
VerifiesOK(s) ==
    /\ \E f \in FilesOf(s) : manifest[f] # NoEntry
    /\ \A f \in FilesOf(s) : manifest[f] # NoEntry => manifest[f].sha = disk[f]

(* An archive that verifies and the member beside it come from one and the *)
(* same download, whatever was published, deleted, refused or killed in    *)
(* between.                                                                *)
VerifiedSourceIsOneDownload ==
    \A s \in Sources :
        (Kind[s] = "archive" /\ VerifiesOK(s) /\ Exists(<<s, "file">>) /\ Exists(<<s, "member">>))
            => disk[<<s, "member">>] = disk[<<s, "file">>]

(* The row and column counts of an entry marked audited were taken from    *)
(* the very content its hash records, as long as the file verifies.        *)
AuditedContentVerified ==
    \A f \in Files :
        (manifest[f].audited # NoFile /\ manifest[f].sha = disk[f])
            => manifest[f].audited = manifest[f].sha

(* A stored series has every period of the range, in order, and a period   *)
(* twice only if its value changed while the windows were being fetched.   *)
SeriesComplete ==
    \A s \in Series : LET c == disk[<<s, "file">>] IN
        Exists(<<s, "file">>) =>
            /\ {c[i].period : i \in 1..Len(c)} = 1..PeriodOf(LastDay)
            /\ \A i, j \in 1..Len(c) : i < j => /\ c[i].period <= c[j].period
                                                /\ c[i] # c[j]

(* Every command ends: attempts, windows and targets are bounded, however  *)
(* the servers answer.                                                     *)
CommandEnds == []<>Idle
==============================================================================
