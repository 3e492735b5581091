------------------------------ MODULE MemSampler ------------------------------
(***************************************************************************)
(* mem_sampler.py: launches a command and records its resident memory      *)
(* until it ends, each sample tagged with what the epoch file says.        *)
(***************************************************************************)
EXTENDS MeteredRun

CONSTANTS
  BuildSamples,  \* bound: samples of the build, and of the driver, while it runs
  RunSamples

VARIABLES
  meter,    \* where the sampler is; "off" outside a measured command
  t0,       \* when it started to sample
  stream,   \* per command: the rows of its .mem.jsonl, or Absent
  reading,  \* the sample being taken
  running   \* what the last poll said

meterVars == <<meter, t0, stream, reading, running>>

Dt == 1

\* A sample: its time, tag and size, and what was announced and begun when it was read.
Samples == [t : Nat, epoch : Tags, rss : Nat, from : Tags, begun : Tags]

ASSUME SampleAssumption == Absent \notin Seq(Samples)

\* A command that has ended but was not waited for has no memory left.
read_rss_mb == IF process = "running" THEN 1 ELSE 0

\* No file, nothing in it: no epoch yet.
TagOf(content) == IF content = Absent \/ content = <<>> THEN -1 ELSE content[1]
read_epoch == TagOf(file)

\* The stream being written is that of the command launched last.
Current == IF phase = "build" THEN "build" ELSE "tag"

OpenStream ==
  /\ meter = "open"
  /\ t0' = now
  /\ stream' = [stream EXCEPT ![Current] = <<>>]
  /\ meter' = "rss"
  /\ UNCHANGED <<now, runVars, reading, running>>

ReadRss ==
  /\ meter = "rss"
  /\ reading' = [t |-> 0, epoch |-> -1, rss |-> read_rss_mb, from |-> announced, begun |-> Begun]
  /\ meter' = "poll"
  /\ UNCHANGED <<now, runVars, t0, stream, running>>

\* poll() waits for a command that has ended; the time is taken next.
Poll ==
  /\ meter = "poll"
  /\ running' = (process = "running")
  /\ process' = IF process = "zombie" THEN "reaped" ELSE process
  /\ reading' = [reading EXCEPT !.t = now - t0]
  /\ meter' = "write"
  /\ UNCHANGED <<now, concurrent, file, failed, phase, e, announced, ended, rows, t0, stream>>

Sample == [reading EXCEPT !.epoch = read_epoch]
StreamBroken == IF running THEN Append(stream[Current], Sample) ELSE stream[Current]
StreamGrown == Append(stream[Current], Sample)

\* The loop writes the sample taken after the command ended, too, and stops.
WriteSampleRetry ==
  /\ meter = "write"
  /\ stream' = IF running THEN [stream EXCEPT ![Current] = StreamGrown] ELSE stream
  /\ meter' = IF running THEN "sleep" ELSE "rss"
  /\ UNCHANGED <<now, runVars, t0, reading, running>>
WriteSample ==
  /\ meter = "write"
  /\ stream' = [stream EXCEPT ![Current] = StreamGrown]
  /\ meter' = IF running THEN "sleep" ELSE "exit"
  /\ UNCHANGED <<now, runVars, t0, reading, running>>

\* It sleeps for dt; at the bounds of the model, until the command ends.
Wake ==
  /\ meter = "sleep"
  /\ \/ process # "running"
     \/ /\ Len(stream[Current]) < IF phase = "build" THEN BuildSamples ELSE RunSamples
        /\ now >= t0 + reading.t + Dt
  /\ meter' = "rss"
  /\ UNCHANGED <<now, runVars, t0, stream, reading, running>>

Meter == OpenStream \/ ReadRss \/ Poll \/ WriteSample \/ Wake
=============================================================================
