------------------------------ MODULE SpfreshLeg ------------------------------
(***************************************************************************)
(* One leg of a campaign: SPFresh measured on a workload.  The script      *)
(* skips a leg that has all its epochs, otherwise it empties the work      *)
(* directory, starts the cache sampler, builds the index and runs the      *)
(* driver, both under the memory sampler, and joins the two memory         *)
(* streams.  It may be killed at any moment and is started again.          *)
(***************************************************************************)
EXTENDS CacheSampler, Metrics

CONSTANT MaxAttempts  \* bound: how often the campaign is started

VARIABLES
  script,    \* the next thing the script does
  attempt,   \* how often the campaign was started
  wrote,     \* the attempt the output file was opened in
  merged     \* the joined stream with the attempt it was made in, or Absent

scriptVars == <<script, attempt, wrote, merged>>
vars == <<now, runVars, meterVars, walkVars, scriptVars>>

NoReading == [t |-> 0, epoch |-> -1, rss |-> 0, from |-> -1, begun |-> -1]
NoStreams == [build |-> Absent, tag |-> Absent]

\* done50: as many rows in the output file as the workload has epochs.
MeasuredNever == FALSE
Measured == rows # Absent /\ Len(rows) >= NEpochs

SkipLeg ==
  /\ script = "check" /\ Measured
  /\ script' = "over"
  /\ UNCHANGED <<now, runVars, meterVars, walkVars, attempt, wrote, merged>>

\* The work directory is made anew, and with it goes the epoch file of an earlier attempt.
LeftBehind == file
Cleaned == Absent
StartLeg ==
  /\ script = "check" /\ ~Measured
  /\ file' = Cleaned /\ stream' = NoStreams
  /\ cache' = <<>> /\ walker' = "ready"
  /\ script' = "reset"
  /\ UNCHANGED <<now, concurrent, process, failed, phase, e, announced, ended, rows, meter, t0, reading,
                 running, walk, attempt, wrote, merged>>

ResetEpoch ==
  /\ script = "reset"
  /\ file' = <<-1>>
  /\ script' = "build"
  /\ UNCHANGED <<now, concurrent, process, failed, phase, e, announced, ended, rows, meterVars, walkVars,
                 attempt, wrote, merged>>

Launch(command) ==
  /\ script = command /\ meter = "off"
  /\ Launched(command) /\ meter' = "open"
  /\ UNCHANGED <<now, concurrent, file, rows, t0, stream, reading, running, walkVars, scriptVars>>

\* The sampler ends with the status of its command, and an error ends the script.
Collected(command, follows) ==
  /\ script = command /\ meter = "exit"
  /\ meter' = "off" /\ process' = "none"
  /\ t0' = 0 /\ running' = FALSE /\ reading' = NoReading
  /\ script' = IF failed THEN "off" ELSE follows
  /\ UNCHANGED <<now, concurrent, file, failed, phase, e, announced, ended, rows, stream, walkVars,
                 attempt, wrote, merged>>

\* The run starts where the last sample of the build was taken.
OffsetNone == 0
Offset == stream["build"][Len(stream["build"])].t
Shifted(row) == [row EXCEPT !.t = row.t + Offset]
Merge ==
  /\ script = "merge"
  /\ merged' = [by |-> attempt,
                rows |-> stream["build"] \o [i \in DOMAIN stream["tag"] |-> Shifted(stream["tag"][i])]]
  /\ script' = "off"
  /\ UNCHANGED <<now, runVars, meterVars, walkVars, attempt, wrote>>

\* What the processes of the leg held is gone.
Forget ==
  /\ process' = "none" /\ failed' = FALSE /\ phase' = "build" /\ e' = -1
  /\ announced' = -1 /\ ended' = 0
  /\ meter' = "off" /\ t0' = 0 /\ running' = FALSE /\ reading' = NoReading
  /\ walker' = "off" /\ walk' = NoTag

\* The cache sampler is killed and the work directory removed.
EndLeg ==
  /\ script = "off"
  /\ Forget /\ file' = Absent /\ stream' = NoStreams
  /\ script' = "over"
  /\ UNCHANGED <<now, concurrent, rows, cache, attempt, wrote, merged>>

\* Everything the campaign started is killed with it; the files stay.
Kill ==
  /\ script # "over" /\ attempt < MaxAttempts
  /\ Forget /\ script' = "over"
  /\ UNCHANGED <<now, concurrent, file, rows, stream, cache, attempt, wrote, merged>>

StartAgain ==
  /\ script = "over" /\ attempt < MaxAttempts
  /\ script' = "check" /\ attempt' = attempt + 1 /\ now' = 0
  /\ UNCHANGED <<runVars, meterVars, walkVars, wrote, merged>>

Ended == script = "over" /\ attempt = MaxAttempts /\ UNCHANGED vars

Script ==
  \/ SkipLeg \/ StartLeg \/ ResetEpoch
  \/ Launch("build") \/ Collected("build", "tag")
  \/ Launch("tag") \/ Collected("tag", "merge")
  \/ Merge \/ EndLeg

\* The output file is opened by the driver of the present attempt.
Command ==
  /\ Work /\ UNCHANGED <<meterVars, walkVars, script, attempt, merged>>
  /\ wrote' = IF phase = "load" /\ rows' = <<>> THEN attempt ELSE wrote

Init ==
  /\ now = 0 /\ concurrent \in BOOLEAN
  /\ file = Absent /\ rows = Absent /\ stream = NoStreams /\ cache = Absent
  /\ process = "none" /\ failed = FALSE /\ phase = "build" /\ e = -1
  /\ announced = -1 /\ ended = 0
  /\ meter = "off" /\ t0 = 0 /\ running = FALSE /\ reading = NoReading
  /\ walker = "off" /\ walk = NoTag
  /\ script = "check" /\ attempt = 1 /\ wrote = 0 /\ merged = Absent

Next ==
  \/ Script
  \/ Command
  \/ Meter /\ UNCHANGED <<walkVars, scriptVars>>
  \/ Walk /\ UNCHANGED scriptVars
  \/ process # "none" /\ Tick /\ UNCHANGED <<meterVars, walkVars, scriptVars>>
  \/ Kill \/ StartAgain \/ Ended

Spec == Init /\ [][Next]_vars

\* The processes get to run and the clock goes on; nobody need start the campaign again.
FairSpec ==
  /\ Spec
  /\ WF_vars(Script) /\ WF_vars(Command)
  /\ WF_vars(Meter /\ UNCHANGED <<walkVars, scriptVars>>)
  /\ WF_vars(process # "none" /\ Tick /\ UNCHANGED <<meterVars, walkVars, scriptVars>>)
-----------------------------------------------------------------------------
TypeOK ==
  /\ now \in 0 .. MaxTime /\ concurrent \in BOOLEAN /\ failed \in BOOLEAN
  /\ file # Absent => file = <<>> \/ (Len(file) = 1 /\ file[1] \in Tags)
  /\ process \in {"none", "running", "zombie", "reaped"}
  /\ meter # "off" => process # "none"
  /\ phase \in {"build", "tag", "announce", "load", "writes", "queries"} /\ e \in Tags
  /\ meter \in {"off", "open", "rss", "poll", "write", "sleep", "exit"}
  /\ rows # Absent => \A i \in DOMAIN rows : rows[i] = i - 1
  /\ walker \in {"off", "ready", "walk"}

\* A joined memory stream belongs to the epochs it is plotted with: it was made in the attempt
\* that wrote them, and they are all there, however often the campaign was killed and started
\* (run_byte_step1.sh done50, run_spfresh.sh).
MergedWithRows ==
  merged # Absent => merged.by = wrote /\ rows # Absent /\ Len(rows) = NEpochs

\* The joined stream is one curve: time never runs back, and neither does the epoch, except where
\* a sample found the epoch file empty.
Ordered(s) ==
  \A i, j \in DOMAIN s : i < j => s[i].t <= s[j].t /\ (s[j].epoch >= 0 => s[i].epoch <= s[j].epoch)
MergedOrdered == merged # Absent => Ordered(merged.rows)

\* What a finished leg leaves behind: a joined stream of its own epochs, in order (both of the above).
MergedSound == TypeOK /\ MergedWithRows /\ MergedOrdered

\* A sample is never filed under an epoch that was not announced, nor under one before the epoch
\* that was announced when its value was read: an epoch file an earlier attempt left behind is
\* never taken for this run's.
Honest(sample) == sample.epoch >= 0 => sample.from <= sample.epoch /\ sample.epoch <= announced
TagsHonest ==
  script \in {"reset", "build", "tag", "merge"} =>
    /\ \A c \in DOMAIN stream :
         stream[c] # Absent => \A i \in DOMAIN stream[c] : Honest(stream[c][i])
    /\ \A i \in DOMAIN cache : Honest(cache[i])

\* The sampler sees a command to its end and no further: the last sample is taken after the command
\* ended, only that one can be without memory, and the build time read from the stream is not
\* shorter than the build was.
SeenToTheEnd ==
  meter = "exit" =>
    LET s == stream[Current]
    IN /\ s # <<>> /\ s[Len(s)].t >= ended - t0
       /\ \A i \in DOMAIN s : s[i].rss = 0 => i = Len(s)
       /\ phase = "build" => build_time_s(s) >= ended - t0

\* mem_sampler.py:10: '-1 means "pre-stream / build"'.  In the concurrent mode, which announces an epoch
\* before it begins it, a sample taken once the stream has begun would then carry another tag.
PreStream ==
  concurrent /\ merged # Absent =>
    \A i \in DOMAIN merged.rows : merged.rows[i].epoch = -1 => merged.rows[i].begun = -1

\* Every leg comes to an end: the sampler stops with its command, and the script with both.
LegEnds == <>[](script = "over")
=============================================================================
