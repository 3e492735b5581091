--------------------------- MODULE SpfreshLegProofs ---------------------------
(***************************************************************************)
(* Proofs about a leg of SPFresh and its samplers, for any number of       *)
(* epochs, attempts, samples and walks, and whatever is killed or fails.   *)
(***************************************************************************)
EXTENDS SpfreshLeg, TLAPS

USE RunAssumption

Walks == [epoch : Tags \cup {NoTag}, from : Tags \cup {NoTag}]
IsStream(s) == s \in Seq(Samples)

RunType ==
  /\ now \in Nat /\ now <= MaxTime
  /\ file = Absent \/ file = <<>> \/ \E k \in Tags : file = <<k>>
  /\ process \in {"none", "running", "zombie", "reaped"}
  /\ phase \in {"build", "tag", "announce", "load", "writes", "queries"}
  /\ e \in Tags /\ announced \in Tags /\ ended \in Nat
  /\ rows = Absent \/ rows \in Seq(Nat)
  /\ process = "running" /\ phase \notin {"build", "load"} /\ e >= 0 => rows \in Seq(Nat)

MeterType ==
  /\ meter \in {"off", "open", "rss", "poll", "write", "sleep", "exit"}
  /\ t0 \in Nat /\ t0 <= now /\ reading \in Samples
  /\ stream \in [{"build", "tag"} -> {Absent} \cup Seq(Samples)]
  /\ meter \notin {"off", "open"} => IsStream(stream[Current])

ScriptType ==
  /\ walker \in {"off", "ready", "walk"} /\ walk \in Tags \cup {NoTag}
  /\ cache = Absent \/ cache \in Seq(Walks)
  /\ walker # "off" => cache \in Seq(Walks)
  /\ script \in {"check", "reset", "build", "tag", "merge", "off", "over"}
  /\ attempt \in Nat /\ wrote \in Nat

TypeInv == RunType /\ MeterType /\ ScriptType

\* Who runs when: a command and its sampler only in the two steps of the script that launch one,
\* and nothing is announced before the driver is there.
Control ==
  /\ process = "none" <=> meter = "off"
  /\ meter # "off" => script \in {"build", "tag"}
  /\ script \in {"check", "reset", "build", "over"} => announced = -1 /\ e = -1
  /\ script = "tag" /\ meter = "off" => announced = -1
  /\ walker = "off" <=> script \in {"check", "over"}
  /\ meter # "off" => (script = "build" <=> phase = "build")
  /\ meter = "off" => t0 = 0
  /\ meter = "write" /\ ~running => process = "reaped"
  /\ meter = "exit" => process = "reaped"
  /\ announced <= e
  /\ phase = "load" => e = -1
  /\ phase \in {"writes", "queries"} => e >= 0

BoolInv == concurrent \in BOOLEAN /\ failed \in BOOLEAN

\* What is in the epoch file was announced, by the command that runs, and no value is read
\* before it was announced: hence every sample is honest.
Measuring == script \in {"build", "tag", "merge"}
TagInv ==
  /\ Measuring => file = <<>> \/ file = <<announced>>
  /\ meter \in {"poll", "write"} => reading.from <= announced
  /\ walker = "walk" => walk <= announced
  /\ script = "reset" => stream = NoStreams /\ file = Absent
  /\ Measuring =>
       \A c \in {"build", "tag"} :
         stream[c] # Absent => \A i \in DOMAIN stream[c] : Honest(stream[c][i])
  /\ script = "reset" \/ Measuring => \A i \in DOMAIN cache : Honest(cache[i])

\* The rows are those of the epochs replayed so far, and once there is a joined stream the leg
\* has all its rows and is never measured again.
AllRows == rows \in Seq(Nat) /\ Len(rows) = NEpochs
RowsInv ==
  /\ rows # Absent => \A i \in DOMAIN rows : rows[i] = i - 1
  /\ process = "running" /\ phase \notin {"build", "load"} /\ e >= 0 =>
       Len(rows) = e /\ wrote = attempt
  /\ process \in {"zombie", "reaped"} /\ ~failed /\ phase # "build" =>
       AllRows /\ wrote = attempt
  /\ script = "merge" => AllRows /\ wrote = attempt
  /\ merged # Absent => AllRows /\ merged.by = wrote
  /\ script \in {"reset", "build", "tag", "merge"} => merged = Absent

\* Samples are taken one after the other; those of the build have no tag, and there are some when
\* the streams are joined.
Untagged(s) == s \in Seq(Samples) /\ s # <<>> /\ \A i \in DOMAIN s : s[i].epoch <= -1
OrderInv ==
  /\ Measuring => \A c \in {"build", "tag"} : stream[c] # Absent => Ordered(stream[c])
  /\ meter \notin {"off", "open"} =>
       \A i \in DOMAIN stream[Current] : stream[Current][i].t <= now - t0
  /\ meter = "write" =>
       /\ reading.t <= now - t0
       /\ \A i \in DOMAIN stream[Current] : stream[Current][i].t <= reading.t
  /\ meter \in {"sleep", "exit"} => stream[Current] # <<>>
  /\ script \in {"tag", "merge"} => Untagged(stream["build"])
  /\ script = "merge" => IsStream(stream["tag"])

\* Until the command has ended no sample is without memory, and the last sample is not taken
\* before the command ended.
EndInv ==
  /\ running \in BOOLEAN
  /\ process # "none" => ended <= now
  /\ meter \in {"rss", "poll", "write", "sleep"} =>
       \A i \in DOMAIN stream[Current] : stream[Current][i].rss # 0
  /\ meter \in {"poll", "write"} /\ process = "running" => reading.rss # 0
  /\ meter = "write" /\ running => reading.rss # 0
  /\ meter = "write" /\ ~running => reading.t >= ended - t0
  /\ meter = "exit" =>
       /\ stream[Current] # <<>>
       /\ stream[Current][Len(stream[Current])].t >= ended - t0
       /\ \A i \in DOMAIN stream[Current] :
            stream[Current][i].rss = 0 => i = Len(stream[Current])

IInv == TypeInv /\ Control /\ BoolInv /\ TagInv /\ RowsInv /\ OrderInv /\ EndInv /\ MergedOrdered
-----------------------------------------------------------------------------

\* The reading a sampler starts with is a sample.
LEMMA NoReadingType == NoReading \in Samples
PROOF BY DEF NoReading, Samples, Tags

\* Before a leg has streams, both are absent.
LEMMA NoStreamsType == NoStreams \in [{"build", "tag"} -> {Absent}]
PROOF BY DEF NoStreams

\* Tagged with what the epoch file says, a reading is a sample (mem_sampler.py write).
LEMMA SampleType ==
  ASSUME TypeInv
  PROVE  [reading EXCEPT !.epoch = read_epoch] \in Samples
PROOF
  <1>1. read_epoch \in Tags
    BY DEF read_epoch, TagOf, TypeInv, RunType, Tags
  <1>2. QED
    BY <1>1 DEF TypeInv, MeterType, Samples

\* A sample that is not earlier, nor of an earlier epoch unless untagged, keeps a stream in order.
LEMMA AppendOrdered ==
  ASSUME NEW s \in Seq(Samples), NEW x \in Samples, Ordered(s),
         \A i \in DOMAIN s : s[i].t <= x.t,
         x.epoch >= 0 => \A i \in DOMAIN s : s[i].epoch <= x.epoch
  PROVE  Ordered(Append(s, x))
PROOF
  <1> DEFINE a == Append(s, x)
  <1>1. ASSUME NEW i \in DOMAIN a, NEW j \in DOMAIN a, i < j
        PROVE  a[i].t <= a[j].t /\ (a[j].epoch >= 0 => a[i].epoch <= a[j].epoch)
    <2>1. i \in 1 .. Len(s) /\ j \in 1 .. Len(s) + 1 /\ a[i] = s[i]
      BY <1>1
    <2>2. CASE j = Len(s) + 1
      BY <2>1, <2>2
    <2>3. CASE j # Len(s) + 1
      BY <1>1, <2>1, <2>3 DEF Ordered
    <2>4. QED
      BY <2>2, <2>3
  <1>2. QED
    BY <1>1 DEF Ordered

\* What is in a stream is a sample, with a time and an epoch.
LEMMA SampleFields ==
  ASSUME NEW x \in Seq(Samples), NEW i \in DOMAIN x
  PROVE  x[i] \in Samples /\ x[i].t \in Nat /\ x[i].epoch \in Int
PROOF
  <1>1. x[i] \in Samples
    OBVIOUS
  <1>2. \A r \in Samples : r.t \in Nat /\ r.epoch \in Int
    BY DEF Samples, Tags
  <1>3. QED
    BY <1>1, <1>2

\* A stream shifted in time is a stream in the same order.
LEMMA ShiftOrdered ==
  ASSUME NEW b \in Seq(Samples), Ordered(b), NEW d \in Nat,
         NEW c, c = [i \in DOMAIN b |-> [b[i] EXCEPT !.t = b[i].t + d]]
  PROVE  c \in Seq(Samples) /\ Ordered(c) /\ \A i \in DOMAIN c : c[i].t >= d
PROOF
  <1>1. ASSUME NEW i \in DOMAIN b
        PROVE  /\ b[i].t \in Nat /\ b[i].epoch \in Int
               /\ c[i] \in Samples /\ c[i].t = b[i].t + d /\ c[i].epoch = b[i].epoch
    <2>1. b[i] \in Samples /\ b[i].t \in Nat /\ b[i].epoch \in Int
      BY SampleFields
    <2>2. b[i].t + d \in Nat
      BY <2>1
    <2>3. [b[i] EXCEPT !.t = b[i].t + d] \in Samples
      BY <2>1, <2>2 DEF Samples
    <2>4. QED
      BY <2>1, <2>3 DEF Samples
  <1>2. DOMAIN c = DOMAIN b /\ DOMAIN b = 1 .. Len(b) /\ Len(b) \in Nat
    OBVIOUS
  <1>3. c \in Seq(Samples)
    <2>1. c \in [1 .. Len(b) -> Samples]
      <3>1. \A i \in DOMAIN b : [b[i] EXCEPT !.t = b[i].t + d] \in Samples
        BY <1>1
      <3>2. QED
        BY <1>2, <3>1
    <2>2. QED
      BY <1>2, <2>1
  <1>4. ASSUME NEW i \in DOMAIN c, NEW j \in DOMAIN c, i < j
        PROVE  c[i].t <= c[j].t /\ (c[j].epoch >= 0 => c[i].epoch <= c[j].epoch)
    <2>1. b[i].t <= b[j].t /\ (b[j].epoch >= 0 => b[i].epoch <= b[j].epoch)
      BY <1>2, <1>4 DEF Ordered
    <2>2. /\ c[i].t = b[i].t + d
          /\ c[j].t = b[j].t + d
          /\ c[i].epoch = b[i].epoch
          /\ c[j].epoch = b[j].epoch
          /\ b[i].t \in Nat /\ b[j].t \in Nat
      BY <1>1, <1>2, <1>4
    <2>3. QED
      BY <2>1, <2>2
  <1>5. \A i \in DOMAIN c : c[i].t >= d
    <2>1. \A i \in DOMAIN b : c[i].t = b[i].t + d /\ b[i].t \in Nat
      BY <1>1
    <2>2. QED
      BY <1>2, <2>1
  <1>6. QED
    BY <1>3, <1>4, <1>5 DEF Ordered

\* A build without tags and a run that starts at its last time are one curve (the join in run_spfresh.sh).
LEMMA JoinOrdered ==
  ASSUME NEW a, Untagged(a), Ordered(a),
         NEW c \in Seq(Samples), Ordered(c), \A i \in DOMAIN c : c[i].t >= a[Len(a)].t
  PROVE  Ordered(a \o c)
PROOF
  <1> DEFINE s == a \o c
  <1>1. a \in Seq(Samples) /\ Len(a) \in DOMAIN a
    BY DEF Untagged
  <1>2. \A i \in DOMAIN a : a[i].t \in Nat /\ a[i].epoch \in Int /\ a[i].epoch <= -1 /\ a[i].t <= a[Len(a)].t
    <2>1. \A i \in DOMAIN a : a[i].t \in Nat /\ a[i].epoch \in Int /\ a[i].epoch <= -1
      BY <1>1, SampleFields DEF Untagged
    <2>2. \A i \in DOMAIN a : i = Len(a) \/ i < Len(a)
      BY <1>1
    <2>3. QED
      BY <1>1, <2>1, <2>2 DEF Ordered
  <1>3. \A i \in DOMAIN c : c[i].t \in Nat /\ c[i].epoch \in Int
    BY SampleFields
  <1>4. ASSUME NEW i \in DOMAIN s, NEW j \in DOMAIN s, i < j
        PROVE  s[i].t <= s[j].t /\ (s[j].epoch >= 0 => s[i].epoch <= s[j].epoch)
    <2>1. i \in 1 .. Len(a) + Len(c) /\ j \in 1 .. Len(a) + Len(c)
      BY <1>1
    <2>2. CASE j <= Len(a)
      <3>1. s[i] = a[i] /\ s[j] = a[j] /\ i \in DOMAIN a /\ j \in DOMAIN a
        BY <1>1, <1>4, <2>1, <2>2
      <3>2. QED
        BY <1>4, <3>1 DEF Ordered
    <2>3. CASE i <= Len(a) /\ j > Len(a)
      <3>1. s[i] = a[i] /\ i \in DOMAIN a /\ j - Len(a) \in DOMAIN c /\ s[j] = c[j - Len(a)]
        BY <1>1, <2>1, <2>3
      <3>2. QED
        BY <1>1, <1>2, <1>3, <3>1
    <2>4. CASE i > Len(a)
      <3>1. /\ i - Len(a) \in DOMAIN c /\ s[i] = c[i - Len(a)]
            /\ j - Len(a) \in DOMAIN c /\ s[j] = c[j - Len(a)] /\ i - Len(a) < j - Len(a)
        BY <1>1, <1>4, <2>1, <2>4
      <3>2. QED
        BY <3>1 DEF Ordered
    <2>5. QED
      BY <1>1, <2>1, <2>2, <2>3, <2>4
  <1>5. QED
    BY <1>4 DEF Ordered

\* Every step keeps the types.
LEMMA TypeStep ==
  ASSUME TypeInv, Control, [Next]_vars
  PROVE  TypeInv'
PROOF
  <1> USE DEF runVars, meterVars, walkVars, scriptVars
  <1>1. CASE SkipLeg
    BY <1>1 DEF SkipLeg, TypeInv, RunType, MeterType, ScriptType, Control, IsStream, Samples,
       Walks, Current, NoTag, Tags
  <1>2. CASE StartLeg
    <2>1. RunType'
      BY <1>2 DEF StartLeg, Cleaned, TypeInv, RunType, Control, Tags
    <2>2. MeterType'
      BY <1>2, NoStreamsType DEF StartLeg, Cleaned, TypeInv, RunType, Control, MeterType,
         IsStream, Current, Samples, Tags
    <2>3. ScriptType'
      BY <1>2 DEF StartLeg, Cleaned, TypeInv, ScriptType, Walks, NoTag, Tags
    <2>4. QED
      BY <2>1, <2>2, <2>3 DEF TypeInv
  <1>3. CASE ResetEpoch
    BY <1>3 DEF ResetEpoch, TypeInv, RunType, MeterType, ScriptType, Control, IsStream, Samples,
       Walks, Current, NoTag, Tags
  <1>4. CASE Launch("build")
    <2>1. RunType'
      BY <1>4 DEF Launch, Launched, TypeInv, RunType, Control, Tags
    <2>2. MeterType'
      BY <1>4 DEF Launch, Launched, TypeInv, RunType, MeterType, IsStream, Current, Samples, Tags
    <2>3. ScriptType'
      BY <1>4 DEF Launch, Launched, TypeInv, ScriptType, Walks, NoTag, Tags
    <2>4. QED
      BY <2>1, <2>2, <2>3 DEF TypeInv
  <1>5. CASE Launch("tag")
    <2>1. RunType'
      BY <1>5 DEF Launch, Launched, TypeInv, RunType, Control, Tags
    <2>2. MeterType'
      BY <1>5 DEF Launch, Launched, TypeInv, RunType, MeterType, IsStream, Current, Samples, Tags
    <2>3. ScriptType'
      BY <1>5 DEF Launch, Launched, TypeInv, ScriptType, Walks, NoTag, Tags
    <2>4. QED
      BY <2>1, <2>2, <2>3 DEF TypeInv
  <1>6. CASE Collected("build", "tag")
    <2>1. RunType'
      BY <1>6 DEF Collected, TypeInv, RunType, Control, Tags
    <2>2. MeterType'
      BY <1>6, NoReadingType DEF Collected, TypeInv, RunType, MeterType, IsStream, Current,
         Samples, Tags
    <2>3. ScriptType'
      BY <1>6 DEF Collected, TypeInv, ScriptType, Walks, NoTag, Tags
    <2>4. QED
      BY <2>1, <2>2, <2>3 DEF TypeInv
  <1>7. CASE Collected("tag", "merge")
    <2>1. RunType'
      BY <1>7 DEF Collected, TypeInv, RunType, Control, Tags
    <2>2. MeterType'
      BY <1>7, NoReadingType DEF Collected, TypeInv, RunType, MeterType, IsStream, Current,
         Samples, Tags
    <2>3. ScriptType'
      BY <1>7 DEF Collected, TypeInv, ScriptType, Walks, NoTag, Tags
    <2>4. QED
      BY <2>1, <2>2, <2>3 DEF TypeInv
  <1>8. CASE Merge
    BY <1>8 DEF Merge, TypeInv, RunType, MeterType, ScriptType, Control, IsStream, Samples,
       Walks, Current, NoTag, Tags
  <1>9. CASE EndLeg
    <2>1. RunType'
      BY <1>9 DEF EndLeg, Forget, TypeInv, RunType, Control, Tags
    <2>2. MeterType'
      BY <1>9, NoReadingType, NoStreamsType DEF EndLeg, Forget, TypeInv, RunType, MeterType,
         IsStream, Current, Samples, Tags
    <2>3. ScriptType'
      BY <1>9 DEF EndLeg, Forget, TypeInv, ScriptType, Walks, NoTag, Tags
    <2>4. QED
      BY <2>1, <2>2, <2>3 DEF TypeInv
  <1>10. CASE Command /\ Truncate
    BY <1>10 DEF Command, Truncate, TypeInv, RunType, MeterType, ScriptType, Control, IsStream,
       Samples, Walks, Current, NoTag, Tags
  <1>11. CASE Command /\ Announce
    BY <1>11 DEF Command, Announce, TypeInv, RunType, MeterType, ScriptType, Control, IsStream,
       Samples, Walks, Current, NoTag, Tags
  <1>12. CASE Command /\ LoadIndex
    BY <1>12 DEF Command, LoadIndex, BeginEpoch, TypeInv, RunType, MeterType, ScriptType,
       Control, IsStream, Samples, Walks, Current, NoTag, Tags
  <1>13. CASE Command /\ WriteEpoch
    BY <1>13 DEF Command, WriteEpoch, TypeInv, RunType, MeterType, ScriptType, Control,
       IsStream, Samples, Walks, Current, NoTag, Tags
  <1>14. CASE Command /\ QueryEpoch
    BY <1>14 DEF Command, QueryEpoch, BeginEpoch, TypeInv, RunType, MeterType, ScriptType,
       Control, IsStream, Samples, Walks, Current, NoTag, Tags
  <1>15. CASE Command /\ FinishBuild
    BY <1>15 DEF Command, FinishBuild, TypeInv, RunType, MeterType, ScriptType, Control,
       IsStream, Samples, Walks, Current, NoTag, Tags
  <1>16. CASE Command /\ Fail
    BY <1>16 DEF Command, Fail, TypeInv, RunType, MeterType, ScriptType, Control, IsStream,
       Samples, Walks, Current, NoTag, Tags
  <1>17. CASE OpenStream /\ UNCHANGED <<walkVars, scriptVars>>
    BY <1>17 DEF OpenStream, TypeInv, RunType, MeterType, ScriptType, Control, IsStream,
       Samples, Walks, Current, NoTag, Tags
  <1>18. CASE ReadRss /\ UNCHANGED <<walkVars, scriptVars>>
    BY <1>18 DEF ReadRss, TypeInv, RunType, MeterType, ScriptType, Control, IsStream, Samples,
       Walks, Current, NoTag, Tags, read_rss_mb, Begun
  <1>19. CASE Poll /\ UNCHANGED <<walkVars, scriptVars>>
    <2>1. [reading EXCEPT !.t = now - t0] \in Samples
      BY DEF TypeInv, MeterType, RunType, Samples
    <2>2. QED
      BY <1>19, <2>1 DEF Poll, TypeInv, RunType, MeterType, ScriptType, Control, IsStream, Current
  <1>20. CASE WriteSample /\ UNCHANGED <<walkVars, scriptVars>>
    <2>1. read_epoch \in Tags
      BY DEF read_epoch, TagOf, TypeInv, RunType, Tags
    <2>2. Sample \in Samples
      BY <2>1 DEF Sample, Samples, TypeInv, MeterType
    <2>3. /\ stream' = [stream EXCEPT ![Current] = Append(stream[Current], Sample)]
          /\ IsStream(stream[Current])
      BY <1>20 DEF WriteSample, StreamGrown, TypeInv, MeterType
    <2>4. Append(stream[Current], Sample) \in Seq(Samples) /\ Current \in {"build", "tag"}
      BY <2>2, <2>3 DEF IsStream, Current
    <2>5. /\ stream' \in [{"build", "tag"} -> {Absent} \cup Seq(Samples)]
          /\ IsStream(stream'[Current'])
      BY <1>20, <2>3, <2>4 DEF WriteSample, TypeInv, MeterType, IsStream, Current
    <2>6. MeterType'
      BY <1>20, <2>5 DEF WriteSample, TypeInv, RunType, MeterType, IsStream, Current, Samples, Tags
    <2>7. RunType' /\ ScriptType'
      BY <1>20 DEF WriteSample, TypeInv, RunType, ScriptType, Walks, NoTag, Tags
    <2>8. QED
      BY <2>6, <2>7 DEF TypeInv
  <1>21. CASE Wake /\ UNCHANGED <<walkVars, scriptVars>>
    BY <1>21 DEF Wake, TypeInv, RunType, MeterType, ScriptType, Control, IsStream, Samples,
       Walks, Current, NoTag, Tags
  <1>22. CASE BeginWalk /\ UNCHANGED scriptVars
    BY <1>22 DEF BeginWalk, TypeInv, RunType, MeterType, ScriptType, Control, IsStream, Samples,
       Walks, Current, NoTag, Tags
  <1>23. CASE EndWalk /\ UNCHANGED scriptVars
    BY <1>23 DEF EndWalk, TypeInv, RunType, MeterType, ScriptType, Control, IsStream, Samples,
       Walks, Current, NoTag, Tags, TagOrNone
  <1>24. CASE Tick /\ UNCHANGED <<meterVars, walkVars, scriptVars>>
    BY <1>24 DEF Tick, TypeInv, RunType, MeterType, ScriptType, Control, IsStream, Samples,
       Walks, Current, NoTag, Tags
  <1>25. CASE Kill
    <2>1. RunType'
      BY <1>25 DEF Kill, Forget, TypeInv, RunType, Control, Tags
    <2>2. MeterType'
      BY <1>25, NoReadingType DEF Kill, Forget, TypeInv, RunType, MeterType, IsStream,
         Current, Samples, Tags
    <2>3. ScriptType'
      BY <1>25 DEF Kill, Forget, TypeInv, ScriptType, Walks, NoTag, Tags
    <2>4. QED
      BY <2>1, <2>2, <2>3 DEF TypeInv
  <1>26. CASE StartAgain
    BY <1>26 DEF StartAgain, TypeInv, RunType, MeterType, ScriptType, Control, IsStream,
       Samples, Walks, Current, NoTag, Tags
  <1>27. CASE UNCHANGED vars
    BY <1>27 DEF vars, TypeInv, RunType, MeterType, ScriptType, Control, IsStream, Samples,
       Walks, Current, NoTag, Tags
  <1>28. QED
    BY <1>1, <1>2, <1>3, <1>4, <1>5, <1>6, <1>7, <1>8, <1>9, <1>10, <1>11, <1>12, <1>13, <1>14,
       <1>15, <1>16, <1>17, <1>18, <1>19, <1>20, <1>21, <1>22, <1>23, <1>24, <1>25, <1>26, <1>27
       DEF Next, Script, Meter, Walk, Ended, Command, Work

\* Every step keeps who runs when.
LEMMA ControlStep ==
  ASSUME TypeInv, Control, [Next]_vars
  PROVE  Control'
PROOF
  <1> USE DEF runVars, meterVars, walkVars, scriptVars
  <1>1. CASE SkipLeg
    BY <1>1 DEF SkipLeg, TypeInv, RunType, MeterType, ScriptType, Control, Tags
  <1>2. CASE StartLeg
    BY <1>2 DEF StartLeg, Cleaned, NoStreams, TypeInv, RunType, MeterType, ScriptType, Control, Tags
  <1>3. CASE ResetEpoch
    BY <1>3 DEF ResetEpoch, TypeInv, RunType, MeterType, ScriptType, Control, Tags
  <1>4. CASE Launch("build")
    BY <1>4 DEF Launch, Launched, TypeInv, RunType, MeterType, ScriptType, Control, Tags
  <1>5. CASE Launch("tag")
    BY <1>5 DEF Launch, Launched, TypeInv, RunType, MeterType, ScriptType, Control, Tags
  <1>6. CASE Collected("build", "tag")
    BY <1>6 DEF Collected, TypeInv, RunType, MeterType, ScriptType, Control, Tags
  <1>7. CASE Collected("tag", "merge")
    BY <1>7 DEF Collected, TypeInv, RunType, MeterType, ScriptType, Control, Tags
  <1>8. CASE Merge
    BY <1>8 DEF Merge, TypeInv, RunType, MeterType, ScriptType, Control, Tags
  <1>9. CASE EndLeg
    BY <1>9 DEF EndLeg, Forget, NoStreams, TypeInv, RunType, MeterType, ScriptType, Control, Tags
  <1>10. CASE Command /\ Truncate
    BY <1>10 DEF Command, Truncate, TypeInv, RunType, MeterType, ScriptType, Control, Tags
  <1>11. CASE Command /\ Announce
    BY <1>11 DEF Command, Announce, TypeInv, RunType, MeterType, ScriptType, Control, Tags
  <1>12. CASE Command /\ LoadIndex
    BY <1>12 DEF Command, LoadIndex, BeginEpoch, TypeInv, RunType, MeterType, ScriptType,
       Control, Tags
  <1>13. CASE Command /\ WriteEpoch
    BY <1>13 DEF Command, WriteEpoch, TypeInv, RunType, MeterType, ScriptType, Control, Tags
  <1>14. CASE Command /\ QueryEpoch
    BY <1>14 DEF Command, QueryEpoch, BeginEpoch, TypeInv, RunType, MeterType, ScriptType,
       Control, Tags
  <1>15. CASE Command /\ FinishBuild
    BY <1>15 DEF Command, FinishBuild, TypeInv, RunType, MeterType, ScriptType, Control, Tags
  <1>16. CASE Command /\ Fail
    BY <1>16 DEF Command, Fail, TypeInv, RunType, MeterType, ScriptType, Control, Tags
  <1>17. CASE OpenStream /\ UNCHANGED <<walkVars, scriptVars>>
    BY <1>17 DEF OpenStream, TypeInv, RunType, MeterType, ScriptType, Control, Tags
  <1>18. CASE ReadRss /\ UNCHANGED <<walkVars, scriptVars>>
    BY <1>18 DEF ReadRss, TypeInv, RunType, MeterType, ScriptType, Control, Tags
  <1>19. CASE Poll /\ UNCHANGED <<walkVars, scriptVars>>
    BY <1>19 DEF Poll, TypeInv, RunType, MeterType, ScriptType, Control, Tags
  <1>20. CASE WriteSample /\ UNCHANGED <<walkVars, scriptVars>>
    BY <1>20 DEF WriteSample, TypeInv, RunType, MeterType, ScriptType, Control, Tags
  <1>21. CASE Wake /\ UNCHANGED <<walkVars, scriptVars>>
    BY <1>21 DEF Wake, TypeInv, RunType, MeterType, ScriptType, Control, Tags
  <1>22. CASE BeginWalk /\ UNCHANGED scriptVars
    BY <1>22 DEF BeginWalk, TypeInv, RunType, MeterType, ScriptType, Control, Tags
  <1>23. CASE EndWalk /\ UNCHANGED scriptVars
    BY <1>23 DEF EndWalk, TypeInv, RunType, MeterType, ScriptType, Control, Tags
  <1>24. CASE Tick /\ UNCHANGED <<meterVars, walkVars, scriptVars>>
    BY <1>24 DEF Tick, TypeInv, RunType, MeterType, ScriptType, Control, Tags
  <1>25. CASE Kill
    BY <1>25 DEF Kill, Forget, TypeInv, RunType, MeterType, ScriptType, Control, Tags
  <1>26. CASE StartAgain
    BY <1>26 DEF StartAgain, TypeInv, RunType, MeterType, ScriptType, Control, Tags
  <1>27. CASE UNCHANGED vars
    BY <1>27 DEF vars, TypeInv, RunType, MeterType, ScriptType, Control, Tags
  <1>28. QED
    BY <1>1, <1>2, <1>3, <1>4, <1>5, <1>6, <1>7, <1>8, <1>9, <1>10, <1>11, <1>12, <1>13, <1>14,
       <1>15, <1>16, <1>17, <1>18, <1>19, <1>20, <1>21, <1>22, <1>23, <1>24, <1>25, <1>26, <1>27
       DEF Next, Script, Meter, Walk, Ended, Command, Work

\* Every step keeps the two flags Booleans.
LEMMA BoolStep ==
  ASSUME BoolInv, [Next]_vars
  PROVE  BoolInv'
PROOF
  <1> USE DEF runVars, meterVars, walkVars, scriptVars
  <1>1. CASE SkipLeg
    BY <1>1 DEF SkipLeg, BoolInv
  <1>2. CASE StartLeg
    BY <1>2 DEF StartLeg, Cleaned, NoStreams, BoolInv
  <1>3. CASE ResetEpoch
    BY <1>3 DEF ResetEpoch, BoolInv
  <1>4. CASE Launch("build")
    BY <1>4 DEF Launch, Launched, BoolInv
  <1>5. CASE Launch("tag")
    BY <1>5 DEF Launch, Launched, BoolInv
  <1>6. CASE Collected("build", "tag")
    BY <1>6 DEF Collected, BoolInv
  <1>7. CASE Collected("tag", "merge")
    BY <1>7 DEF Collected, BoolInv
  <1>8. CASE Merge
    BY <1>8 DEF Merge, BoolInv
  <1>9. CASE EndLeg
    BY <1>9 DEF EndLeg, Forget, NoStreams, BoolInv
  <1>10. CASE Command /\ Truncate
    BY <1>10 DEF Command, Truncate, BoolInv
  <1>11. CASE Command /\ Announce
    BY <1>11 DEF Command, Announce, BoolInv
  <1>12. CASE Command /\ LoadIndex
    BY <1>12 DEF Command, LoadIndex, BeginEpoch, BoolInv
  <1>13. CASE Command /\ WriteEpoch
    BY <1>13 DEF Command, WriteEpoch, BoolInv
  <1>14. CASE Command /\ QueryEpoch
    BY <1>14 DEF Command, QueryEpoch, BeginEpoch, BoolInv
  <1>15. CASE Command /\ FinishBuild
    BY <1>15 DEF Command, FinishBuild, BoolInv
  <1>16. CASE Command /\ Fail
    BY <1>16 DEF Command, Fail, BoolInv
  <1>17. CASE OpenStream /\ UNCHANGED <<walkVars, scriptVars>>
    BY <1>17 DEF OpenStream, BoolInv
  <1>18. CASE ReadRss /\ UNCHANGED <<walkVars, scriptVars>>
    BY <1>18 DEF ReadRss, BoolInv
  <1>19. CASE Poll /\ UNCHANGED <<walkVars, scriptVars>>
    BY <1>19 DEF Poll, BoolInv
  <1>20. CASE WriteSample /\ UNCHANGED <<walkVars, scriptVars>>
    BY <1>20 DEF WriteSample, BoolInv
  <1>21. CASE Wake /\ UNCHANGED <<walkVars, scriptVars>>
    BY <1>21 DEF Wake, BoolInv
  <1>22. CASE BeginWalk /\ UNCHANGED scriptVars
    BY <1>22 DEF BeginWalk, BoolInv
  <1>23. CASE EndWalk /\ UNCHANGED scriptVars
    BY <1>23 DEF EndWalk, BoolInv
  <1>24. CASE Tick /\ UNCHANGED <<meterVars, walkVars, scriptVars>>
    BY <1>24 DEF Tick, BoolInv
  <1>25. CASE Kill
    BY <1>25 DEF Kill, Forget, BoolInv
  <1>26. CASE StartAgain
    BY <1>26 DEF StartAgain, BoolInv
  <1>27. CASE UNCHANGED vars
    BY <1>27 DEF vars, BoolInv
  <1>28. QED
    BY <1>1, <1>2, <1>3, <1>4, <1>5, <1>6, <1>7, <1>8, <1>9, <1>10, <1>11, <1>12, <1>13, <1>14,
       <1>15, <1>16, <1>17, <1>18, <1>19, <1>20, <1>21, <1>22, <1>23, <1>24, <1>25, <1>26, <1>27
       DEF Next, Script, Meter, Walk, Ended, Command, Work

\* Every step keeps the samples honest, and so what makes them so.
LEMMA TagStep ==
  ASSUME TypeInv, Control, TagInv, [Next]_vars
  PROVE  TagInv'
PROOF
  <1> USE DEF runVars, meterVars, walkVars, scriptVars
  <1>1. CASE SkipLeg
    BY <1>1 DEF SkipLeg, TypeInv, RunType, MeterType, ScriptType, Control, TagInv, Measuring,
       Honest, Tags
  <1>2. CASE StartLeg
    BY <1>2 DEF StartLeg, Cleaned, NoStreams, TypeInv, RunType, MeterType, ScriptType, Control,
       TagInv, Measuring, Honest, Tags
  <1>3. CASE ResetEpoch
    <2>1. file' = <<announced'>> /\ announced' = -1 /\ meter' = "off" /\ walker' = walker /\ walk' = walk /\ announced' = announced
      BY <1>3 DEF ResetEpoch, TypeInv, Control, ScriptType
    <2>2. stream' = NoStreams /\ cache' = cache /\ script' = "build"
      BY <1>3 DEF ResetEpoch, TagInv
    <2>3. \A c \in {"build", "tag"} : stream'[c] = Absent
      BY <2>2 DEF NoStreams
    <2>4. \A i \in DOMAIN cache : Honest(cache[i])'
      BY <1>3, <2>1, <2>2 DEF ResetEpoch, TagInv, Honest
    <2>5. QED
      BY <2>1, <2>2, <2>3, <2>4 DEF TypeInv, RunType, TagInv, Measuring, Tags
  <1>4. CASE Launch("build")
    BY <1>4 DEF Launch, Launched, TypeInv, RunType, MeterType, ScriptType, Control, TagInv,
       Measuring, Honest, Tags
  <1>5. CASE Launch("tag")
    BY <1>5 DEF Launch, Launched, TypeInv, RunType, MeterType, ScriptType, Control, TagInv,
       Measuring, Honest, Tags
  <1>6. CASE Collected("build", "tag")
    BY <1>6 DEF Collected, TypeInv, RunType, MeterType, ScriptType, Control, TagInv, Measuring,
       Honest, Tags
  <1>7. CASE Collected("tag", "merge")
    BY <1>7 DEF Collected, TypeInv, RunType, MeterType, ScriptType, Control, TagInv, Measuring,
       Honest, Tags
  <1>8. CASE Merge
    BY <1>8 DEF Merge, TypeInv, RunType, MeterType, ScriptType, Control, TagInv, Measuring,
       Honest, Tags
  <1>9. CASE EndLeg
    BY <1>9 DEF EndLeg, Forget, NoStreams, TypeInv, RunType, MeterType, ScriptType, Control,
       TagInv, Measuring, Honest, Tags
  <1>10. CASE Command /\ Truncate
    BY <1>10 DEF Command, Truncate, TypeInv, RunType, MeterType, ScriptType, Control, TagInv,
       Measuring, Honest, Tags
  <1>11. CASE Command /\ Announce
    <2>1. announced' = e /\ announced <= e /\ file' = <<e>> /\ announced \in Int /\ e \in Int
      BY <1>11 DEF Command, Announce, Control, TypeInv, RunType, Tags
    <2>2. Measuring /\ stream' = stream /\ cache' = cache /\ script' = script /\ script # "reset"
      BY <1>11 DEF Command, Announce, Control, TypeInv, RunType, Measuring
    <2>3. \A s \in Samples : Honest(s) => Honest(s)'
      BY <2>1 DEF Honest, Samples, Tags
    <2>4. \A w \in Walks : Honest(w) => Honest(w)'
      BY <2>1 DEF Honest, Walks, Tags, NoTag
    <2>5. ASSUME NEW c \in {"build", "tag"}, stream[c] # Absent, NEW i \in DOMAIN stream[c]
          PROVE  Honest(stream[c][i])'
      <3>1. stream[c] \in Seq(Samples)
        BY <2>5 DEF TypeInv, MeterType
      <3>2. stream[c][i] \in Samples /\ Honest(stream[c][i])
        BY <2>2, <2>5, <3>1 DEF TagInv
      <3>3. QED
        BY <2>1, <2>2, <3>2 DEF Honest, Samples, Tags
    <2>6. cache \in Seq(Walks)
      BY <2>2 DEF TypeInv, ScriptType, Control, Measuring
    <2>7. ASSUME NEW i \in DOMAIN cache
          PROVE  Honest(cache[i])'
      <3>1. cache[i] \in Walks
        BY <2>6, <2>7
      <3>2. Honest(cache[i])
        BY <2>2, <2>7 DEF TagInv
      <3>3. QED
        BY <2>1, <2>2, <3>1, <3>2 DEF Honest, Walks, Tags, NoTag
    <2>8. QED
      BY <1>11, <2>1, <2>2, <2>5, <2>7 DEF Command, Announce, TypeInv, RunType, MeterType,
         ScriptType, TagInv, Measuring, Tags, Samples
  <1>12. CASE Command /\ LoadIndex
    BY <1>12 DEF Command, LoadIndex, BeginEpoch, TypeInv, RunType, MeterType, ScriptType,
       Control, TagInv, Measuring, Honest, Tags
  <1>13. CASE Command /\ WriteEpoch
    BY <1>13 DEF Command, WriteEpoch, TypeInv, RunType, MeterType, ScriptType, Control, TagInv,
       Measuring, Honest, Tags
  <1>14. CASE Command /\ QueryEpoch
    BY <1>14 DEF Command, QueryEpoch, BeginEpoch, TypeInv, RunType, MeterType, ScriptType,
       Control, TagInv, Measuring, Honest, Tags
  <1>15. CASE Command /\ FinishBuild
    BY <1>15 DEF Command, FinishBuild, TypeInv, RunType, MeterType, ScriptType, Control, TagInv,
       Measuring, Honest, Tags
  <1>16. CASE Command /\ Fail
    BY <1>16 DEF Command, Fail, TypeInv, RunType, MeterType, ScriptType, Control, TagInv,
       Measuring, Honest, Tags
  <1>17. CASE OpenStream /\ UNCHANGED <<walkVars, scriptVars>>
    BY <1>17 DEF OpenStream, TypeInv, RunType, MeterType, ScriptType, Control, TagInv,
       Measuring, Honest, Tags
  <1>18. CASE ReadRss /\ UNCHANGED <<walkVars, scriptVars>>
    BY <1>18 DEF ReadRss, TypeInv, RunType, MeterType, ScriptType, Control, TagInv, Measuring,
       Honest, Tags
  <1>19. CASE Poll /\ UNCHANGED <<walkVars, scriptVars>>
    BY <1>19 DEF Poll, TypeInv, RunType, MeterType, ScriptType, Control, TagInv, Measuring,
       Honest, Tags
  <1>20. CASE WriteSample /\ UNCHANGED <<walkVars, scriptVars>>
    <2>1. /\ Sample \in Samples
          /\ Sample.t = reading.t
          /\ Sample.from = reading.from
          /\ Sample.epoch = read_epoch
      BY SampleType DEF Sample, TypeInv, MeterType, Samples
    <2>2. /\ stream' = [stream EXCEPT ![Current] = Append(stream[Current], Sample)]
          /\ stream[Current] \in Seq(Samples)
      BY <1>20 DEF WriteSample, StreamGrown, TypeInv, MeterType, IsStream
    <2>3. /\ Current \in {"build", "tag"}
          /\ Current' = Current
          /\ stream \in [{"build", "tag"} -> {Absent} \cup Seq(Samples)]
      BY <1>20 DEF WriteSample, Current, TypeInv, MeterType
    <2>4. /\ stream'[Current] = Append(stream[Current], Sample)
          /\ \A c \in {"build", "tag"} : c # Current => stream'[c] = stream[c]
      BY <2>2, <2>3
    <2>5. read_epoch = announced \/ read_epoch = -1
      BY <1>20 DEF WriteSample, Control, TagInv, Measuring, read_epoch, TagOf
    <2>6. Honest(Sample) /\ announced' = announced
      BY <1>20, <2>1, <2>5 DEF WriteSample, Honest, TypeInv, RunType, MeterType, TagInv,
         Samples, Tags
    <2>7. Measuring /\ script' = script /\ script # "reset" /\ cache' = cache
      BY <1>20 DEF WriteSample, Control, Measuring
    <2>8. ASSUME NEW c \in {"build", "tag"}, stream'[c] # Absent, NEW i \in DOMAIN stream'[c]
          PROVE  Honest(stream'[c][i])
      <3>1. CASE c # Current
        BY <2>4, <2>7, <2>8, <3>1 DEF TagInv
      <3>2. CASE c = Current
        <4>1. i \in 1 .. Len(stream[c]) + 1 /\ stream'[c][i] = IF i = Len(stream[c]) + 1 THEN Sample ELSE stream[c][i]
          BY <2>1, <2>2, <2>4, <2>8, <3>2
        <4>2. stream[c] # Absent
          BY <2>2, <3>2, SampleAssumption
        <4>3. QED
          BY <2>2, <2>6, <2>7, <3>2, <4>1, <4>2 DEF TagInv
      <3>3. QED
        BY <3>1, <3>2
    <2>9. ASSUME NEW i \in DOMAIN cache
          PROVE  Honest(cache[i])
      BY <2>7, <2>9 DEF TagInv
    <2>10. QED
      BY <1>20, <2>6, <2>7, <2>8, <2>9 DEF WriteSample, TagInv, Measuring, Honest
  <1>21. CASE Wake /\ UNCHANGED <<walkVars, scriptVars>>
    BY <1>21 DEF Wake, TypeInv, RunType, MeterType, ScriptType, Control, TagInv, Measuring,
       Honest, Tags
  <1>22. CASE BeginWalk /\ UNCHANGED scriptVars
    BY <1>22 DEF BeginWalk, TypeInv, RunType, MeterType, ScriptType, Control, TagInv, Measuring,
       Honest, Tags
  <1>23. CASE EndWalk /\ UNCHANGED scriptVars
    <2>1. script = "reset" \/ Measuring => TagOrNone = announced \/ TagOrNone = NoTag
      BY DEF TagInv, TagOrNone
    <2>2. /\ announced' = announced
          /\ script' = script
          /\ stream' = stream
          /\ walker' = "ready"
          /\ meter' = meter
          /\ reading' = reading
          /\ file' = file
      BY <1>23 DEF EndWalk
    <2>3. /\ cache \in Seq(Walks)
          /\ cache' = Append(cache, [epoch |-> TagOrNone, from |-> walk])
          /\ walk <= announced
      BY <1>23 DEF EndWalk, TypeInv, ScriptType, TagInv
    <2>4. ASSUME script = "reset" \/ Measuring, NEW i \in DOMAIN cache'
          PROVE  Honest(cache'[i])
      <3>1. i \in 1 .. Len(cache) + 1
        BY <2>3, <2>4
      <3>2. CASE i \in 1 .. Len(cache)
        BY <2>3, <2>4, <3>2 DEF TagInv
      <3>3. CASE i = Len(cache) + 1
        <4>1. cache'[i] = [epoch |-> TagOrNone, from |-> walk]
          BY <2>3, <3>3
        <4>2. announced \in Int
          BY DEF TypeInv, RunType, Tags
        <4>3. QED
          BY <2>1, <2>3, <2>4, <4>1, <4>2 DEF Honest, NoTag
      <3>4. QED
        BY <2>3, <3>1, <3>2, <3>3
    <2>5. QED
      BY <2>2, <2>4 DEF TagInv, Measuring, Honest
  <1>24. CASE Tick /\ UNCHANGED <<meterVars, walkVars, scriptVars>>
    BY <1>24 DEF Tick, TypeInv, RunType, MeterType, ScriptType, Control, TagInv, Measuring,
       Honest, Tags
  <1>25. CASE Kill
    BY <1>25 DEF Kill, Forget, TypeInv, RunType, MeterType, ScriptType, Control, TagInv,
       Measuring, Honest, Tags
  <1>26. CASE StartAgain
    BY <1>26 DEF StartAgain, TypeInv, RunType, MeterType, ScriptType, Control, TagInv,
       Measuring, Honest, Tags
  <1>27. CASE UNCHANGED vars
    BY <1>27 DEF vars, TypeInv, RunType, MeterType, ScriptType, Control, TagInv, Measuring,
       Honest, Tags
  <1>28. QED
    BY <1>1, <1>2, <1>3, <1>4, <1>5, <1>6, <1>7, <1>8, <1>9, <1>10, <1>11, <1>12, <1>13, <1>14,
       <1>15, <1>16, <1>17, <1>18, <1>19, <1>20, <1>21, <1>22, <1>23, <1>24, <1>25, <1>26, <1>27
       DEF Next, Script, Meter, Walk, Ended, Command, Work

\* Every step keeps the rows in step with the driver, and with the joined stream.
LEMMA RowsStep ==
  ASSUME TypeInv, Control, RowsInv, [Next]_vars
  PROVE  RowsInv'
PROOF
  <1> USE DEF runVars, meterVars, walkVars, scriptVars
  <1>1. CASE SkipLeg
    BY <1>1 DEF SkipLeg, TypeInv, RunType, MeterType, ScriptType, Control, RowsInv, AllRows,
       Tags, Measured
  <1>2. CASE StartLeg
    BY <1>2 DEF StartLeg, Cleaned, NoStreams, TypeInv, RunType, MeterType, ScriptType, Control,
       RowsInv, AllRows, Tags, Measured
  <1>3. CASE ResetEpoch
    BY <1>3 DEF ResetEpoch, TypeInv, RunType, MeterType, ScriptType, Control, RowsInv, AllRows, Tags
  <1>4. CASE Launch("build")
    BY <1>4 DEF Launch, Launched, TypeInv, RunType, MeterType, ScriptType, Control, RowsInv,
       AllRows, Tags
  <1>5. CASE Launch("tag")
    BY <1>5 DEF Launch, Launched, TypeInv, RunType, MeterType, ScriptType, Control, RowsInv,
       AllRows, Tags
  <1>6. CASE Collected("build", "tag")
    BY <1>6 DEF Collected, TypeInv, RunType, MeterType, ScriptType, Control, RowsInv, AllRows, Tags
  <1>7. CASE Collected("tag", "merge")
    BY <1>7 DEF Collected, TypeInv, RunType, MeterType, ScriptType, Control, RowsInv, AllRows, Tags
  <1>8. CASE Merge
    BY <1>8 DEF Merge, TypeInv, RunType, MeterType, ScriptType, Control, RowsInv, AllRows, Tags
  <1>9. CASE EndLeg
    BY <1>9 DEF EndLeg, Forget, NoStreams, TypeInv, RunType, MeterType, ScriptType, Control,
       RowsInv, AllRows, Tags
  <1>10. CASE Command /\ Truncate
    BY <1>10 DEF Command, Truncate, TypeInv, RunType, MeterType, ScriptType, Control, RowsInv,
       AllRows, Tags
  <1>11. CASE Command /\ Announce
    BY <1>11 DEF Command, Announce, TypeInv, RunType, MeterType, ScriptType, Control, RowsInv,
       AllRows, Tags
  <1>12. CASE Command /\ LoadIndex
    BY <1>12 DEF Command, LoadIndex, BeginEpoch, TypeInv, RunType, MeterType, ScriptType,
       Control, RowsInv, AllRows, Tags
  <1>13. CASE Command /\ WriteEpoch
    BY <1>13 DEF Command, WriteEpoch, TypeInv, RunType, MeterType, ScriptType, Control, RowsInv,
       AllRows, Tags
  <1>14. CASE Command /\ QueryEpoch
    BY <1>14 DEF Command, QueryEpoch, BeginEpoch, TypeInv, RunType, MeterType, ScriptType,
       Control, RowsInv, AllRows, Tags
  <1>15. CASE Command /\ FinishBuild
    BY <1>15 DEF Command, FinishBuild, TypeInv, RunType, MeterType, ScriptType, Control,
       RowsInv, AllRows, Tags
  <1>16. CASE Command /\ Fail
    BY <1>16 DEF Command, Fail, TypeInv, RunType, MeterType, ScriptType, Control, RowsInv,
       AllRows, Tags
  <1>17. CASE OpenStream /\ UNCHANGED <<walkVars, scriptVars>>
    BY <1>17 DEF OpenStream, TypeInv, RunType, MeterType, ScriptType, Control, RowsInv, AllRows,
       Tags
  <1>18. CASE ReadRss /\ UNCHANGED <<walkVars, scriptVars>>
    BY <1>18 DEF ReadRss, TypeInv, RunType, MeterType, ScriptType, Control, RowsInv, AllRows, Tags
  <1>19. CASE Poll /\ UNCHANGED <<walkVars, scriptVars>>
    BY <1>19 DEF Poll, TypeInv, RunType, MeterType, ScriptType, Control, RowsInv, AllRows, Tags
  <1>20. CASE WriteSample /\ UNCHANGED <<walkVars, scriptVars>>
    BY <1>20 DEF WriteSample, TypeInv, RunType, MeterType, ScriptType, Control, RowsInv,
       AllRows, Tags
  <1>21. CASE Wake /\ UNCHANGED <<walkVars, scriptVars>>
    BY <1>21 DEF Wake, TypeInv, RunType, MeterType, ScriptType, Control, RowsInv, AllRows, Tags
  <1>22. CASE BeginWalk /\ UNCHANGED scriptVars
    BY <1>22 DEF BeginWalk, TypeInv, RunType, MeterType, ScriptType, Control, RowsInv, AllRows, Tags
  <1>23. CASE EndWalk /\ UNCHANGED scriptVars
    BY <1>23 DEF EndWalk, TypeInv, RunType, MeterType, ScriptType, Control, RowsInv, AllRows, Tags
  <1>24. CASE Tick /\ UNCHANGED <<meterVars, walkVars, scriptVars>>
    BY <1>24 DEF Tick, TypeInv, RunType, MeterType, ScriptType, Control, RowsInv, AllRows, Tags
  <1>25. CASE Kill
    BY <1>25 DEF Kill, Forget, TypeInv, RunType, MeterType, ScriptType, Control, RowsInv,
       AllRows, Tags
  <1>26. CASE StartAgain
    BY <1>26 DEF StartAgain, TypeInv, RunType, MeterType, ScriptType, Control, RowsInv, AllRows,
       Tags
  <1>27. CASE UNCHANGED vars
    BY <1>27 DEF vars, TypeInv, RunType, MeterType, ScriptType, Control, RowsInv, AllRows, Tags
  <1>28. QED
    BY <1>1, <1>2, <1>3, <1>4, <1>5, <1>6, <1>7, <1>8, <1>9, <1>10, <1>11, <1>12, <1>13, <1>14,
       <1>15, <1>16, <1>17, <1>18, <1>19, <1>20, <1>21, <1>22, <1>23, <1>24, <1>25, <1>26, <1>27
       DEF Next, Script, Meter, Walk, Ended, Command, Work

\* Every step keeps the streams in order.
LEMMA OrderStep ==
  ASSUME TypeInv, Control, TagInv, OrderInv, [Next]_vars
  PROVE  OrderInv'
PROOF
  <1> USE DEF runVars, meterVars, walkVars, scriptVars
  <1>1. CASE SkipLeg
    BY <1>1 DEF SkipLeg, TypeInv, RunType, MeterType, ScriptType, Control, OrderInv, Measuring,
       Tags, IsStream, Current
  <1>2. CASE StartLeg
    BY <1>2 DEF StartLeg, Cleaned, NoStreams, TypeInv, RunType, MeterType, ScriptType, Control,
       OrderInv, Measuring, Tags, IsStream, Current
  <1>3. CASE ResetEpoch
    <2>1. \A c \in {"build", "tag"} : stream'[c] = Absent
      BY <1>3 DEF ResetEpoch, TagInv, NoStreams
    <2>2. script' = "build" /\ meter' = "off"
      BY <1>3 DEF ResetEpoch, Control, TypeInv, MeterType
    <2>3. QED
      BY <2>1, <2>2 DEF OrderInv, Measuring
  <1>4. CASE Launch("build")
    BY <1>4 DEF Launch, Launched, TypeInv, RunType, MeterType, ScriptType, Control, OrderInv,
       Measuring, Tags, IsStream, Current
  <1>5. CASE Launch("tag")
    BY <1>5 DEF Launch, Launched, TypeInv, RunType, MeterType, ScriptType, Control, OrderInv,
       Measuring, Tags, IsStream, Current
  <1>6. CASE Collected("build", "tag")
    <2>1. /\ script = "build"
          /\ meter = "exit"
          /\ phase = "build"
          /\ announced = -1
          /\ stream' = stream
      BY <1>6 DEF Collected, Control
    <2>2. stream["build"] \in Seq(Samples) /\ stream["build"] # <<>>
      BY <2>1 DEF TypeInv, MeterType, IsStream, OrderInv, Current
    <2>3. \A i \in DOMAIN stream["build"] : stream["build"][i] \in Samples /\ Honest(stream["build"][i])
      BY <2>1, <2>2, SampleAssumption DEF TagInv, Measuring
    <2>4. ASSUME NEW i \in DOMAIN stream["build"]
          PROVE  stream["build"][i].epoch <= -1
      <3>1. stream["build"][i].epoch \in Int /\ (stream["build"][i].epoch >= 0 => stream["build"][i].epoch <= -1)
        BY <2>1, <2>3, <2>4 DEF Honest, Samples, Tags
      <3>2. QED
        BY <3>1
    <2>5. meter' = "off" /\ script' \in {"off", "tag"}
      BY <1>6 DEF Collected
    <2>6. QED
      BY <2>1, <2>2, <2>4, <2>5 DEF OrderInv, Measuring, Untagged
  <1>7. CASE Collected("tag", "merge")
    BY <1>7 DEF Collected, TypeInv, RunType, MeterType, ScriptType, Control, OrderInv,
       Measuring, Tags, IsStream, Current
  <1>8. CASE Merge
    BY <1>8 DEF Merge, TypeInv, RunType, MeterType, ScriptType, Control, OrderInv, Measuring,
       Tags, IsStream, Current
  <1>9. CASE EndLeg
    BY <1>9 DEF EndLeg, Forget, NoStreams, TypeInv, RunType, MeterType, ScriptType, Control,
       OrderInv, Measuring, Tags, IsStream, Current
  <1>10. CASE Command /\ Truncate
    BY <1>10 DEF Command, Truncate, TypeInv, RunType, MeterType, ScriptType, Control, OrderInv,
       Measuring, Tags, IsStream, Current
  <1>11. CASE Command /\ Announce
    BY <1>11 DEF Command, Announce, TypeInv, RunType, MeterType, ScriptType, Control, OrderInv,
       Measuring, Tags, IsStream, Current
  <1>12. CASE Command /\ LoadIndex
    BY <1>12 DEF Command, LoadIndex, BeginEpoch, TypeInv, RunType, MeterType, ScriptType,
       Control, OrderInv, Measuring, Tags, IsStream, Current
  <1>13. CASE Command /\ WriteEpoch
    BY <1>13 DEF Command, WriteEpoch, TypeInv, RunType, MeterType, ScriptType, Control,
       OrderInv, Measuring, Tags, IsStream, Current
  <1>14. CASE Command /\ QueryEpoch
    BY <1>14 DEF Command, QueryEpoch, BeginEpoch, TypeInv, RunType, MeterType, ScriptType,
       Control, OrderInv, Measuring, Tags, IsStream, Current
  <1>15. CASE Command /\ FinishBuild
    BY <1>15 DEF Command, FinishBuild, TypeInv, RunType, MeterType, ScriptType, Control,
       OrderInv, Measuring, Tags, IsStream, Current
  <1>16. CASE Command /\ Fail
    BY <1>16 DEF Command, Fail, TypeInv, RunType, MeterType, ScriptType, Control, OrderInv,
       Measuring, Tags, IsStream, Current
  <1>17. CASE OpenStream /\ UNCHANGED <<walkVars, scriptVars>>
    <2>1. /\ stream' = [stream EXCEPT ![Current] = <<>>]
          /\ Current \in {"build", "tag"}
          /\ Current' = Current
      BY <1>17 DEF OpenStream, Current
    <2>2. stream'[Current] = <<>> /\ \A c \in {"build", "tag"} : c # Current => stream'[c] = stream[c]
      BY <2>1 DEF TypeInv, MeterType
    <2>3. Ordered(<<>>)
      BY DEF Ordered
    <2>4. meter' = "rss" /\ script' = script /\ script \in {"build", "tag"} /\ (script = "tag" => Current = "tag")
      BY <1>17 DEF OpenStream, Control, Current
    <2>5. QED
      BY <2>1, <2>2, <2>3, <2>4 DEF OrderInv, Measuring
  <1>18. CASE ReadRss /\ UNCHANGED <<walkVars, scriptVars>>
    BY <1>18 DEF ReadRss, TypeInv, RunType, MeterType, ScriptType, Control, OrderInv, Measuring,
       Tags, IsStream, Current
  <1>19. CASE Poll /\ UNCHANGED <<walkVars, scriptVars>>
    BY <1>19 DEF Poll, TypeInv, RunType, MeterType, ScriptType, Control, OrderInv, Measuring,
       Tags, IsStream, Current
  <1>20. CASE WriteSample /\ UNCHANGED <<walkVars, scriptVars>>
    <2>1. /\ Sample \in Samples
          /\ Sample.t = reading.t
          /\ Sample.from = reading.from
          /\ Sample.epoch = read_epoch
      BY SampleType DEF Sample, TypeInv, MeterType, Samples
    <2>2. /\ stream' = [stream EXCEPT ![Current] = Append(stream[Current], Sample)]
          /\ stream[Current] \in Seq(Samples)
      BY <1>20 DEF WriteSample, StreamGrown, TypeInv, MeterType, IsStream
    <2>3. /\ Current \in {"build", "tag"}
          /\ Current' = Current
          /\ stream \in [{"build", "tag"} -> {Absent} \cup Seq(Samples)]
      BY <1>20 DEF WriteSample, Current, TypeInv, MeterType
    <2>4. /\ stream'[Current] = Append(stream[Current], Sample)
          /\ \A c \in {"build", "tag"} : c # Current => stream'[c] = stream[c]
      BY <2>2, <2>3
    <2>5. read_epoch = announced \/ read_epoch = -1
      BY <1>20 DEF WriteSample, Control, TagInv, Measuring, read_epoch, TagOf
    <2>6. /\ Measuring
          /\ script' = script
          /\ now' = now
          /\ t0' = t0
          /\ meter' \in {"sleep", "exit"}
          /\ announced \in Int
          /\ (script = "tag" => Current = "tag") /\ script # "merge"
      BY <1>20 DEF WriteSample, Control, Measuring, Current, TypeInv, RunType, Tags
    <2>7. stream[Current] # Absent
      BY <2>2, SampleAssumption
    <2>8. \A i \in DOMAIN stream[Current] : stream[Current][i] \in Samples /\ Honest(stream[Current][i])
      BY <2>2, <2>3, <2>6, <2>7 DEF TagInv
    <2>9. \A i \in DOMAIN stream[Current] : stream[Current][i].epoch <= announced
      <3>1. announced >= -1
        BY DEF TypeInv, RunType, Tags
      <3>2. QED
        BY <2>6, <2>8, <3>1 DEF Honest, Samples, Tags
    <2>10. \A i \in DOMAIN stream[Current] : stream[Current][i].t <= Sample.t
      BY <1>20, <2>1 DEF WriteSample, OrderInv
    <2>11. Ordered(Append(stream[Current], Sample))
      <3>1. Ordered(stream[Current])
        BY <2>3, <2>6, <2>7 DEF OrderInv
      <3>2. QED
        BY <2>1, <2>2, <2>5, <2>9, <2>10, <3>1, AppendOrdered
    <2>12. \A c \in {"build", "tag"} : stream'[c] # Absent => Ordered(stream'[c])
      BY <2>4, <2>6, <2>11 DEF OrderInv
    <2>13. ASSUME NEW i \in DOMAIN stream'[Current]
           PROVE  stream'[Current][i].t <= now - t0
      <3>1. i \in 1 .. Len(stream[Current]) + 1 /\ stream'[Current][i] = IF i = Len(stream[Current]) + 1 THEN Sample ELSE stream[Current][i]
        BY <2>1, <2>2, <2>4, <2>13
      <3>2. QED
        BY <1>20, <2>1, <2>2, <3>1 DEF WriteSample, OrderInv
    <2>14. stream'[Current] # <<>>
      BY <2>1, <2>2, <2>4
    <2>15. script = "tag" => stream'["build"] = stream["build"]
      BY <2>4, <2>6
    <2>16. QED
      BY <2>3, <2>6, <2>12, <2>13, <2>14, <2>15 DEF OrderInv, Measuring
  <1>21. CASE Wake /\ UNCHANGED <<walkVars, scriptVars>>
    BY <1>21 DEF Wake, TypeInv, RunType, MeterType, ScriptType, Control, OrderInv, Measuring,
       Tags, IsStream, Current
  <1>22. CASE BeginWalk /\ UNCHANGED scriptVars
    BY <1>22 DEF BeginWalk, TypeInv, RunType, MeterType, ScriptType, Control, OrderInv,
       Measuring, Tags, IsStream, Current
  <1>23. CASE EndWalk /\ UNCHANGED scriptVars
    BY <1>23 DEF EndWalk, TypeInv, RunType, MeterType, ScriptType, Control, OrderInv, Measuring,
       Tags, IsStream, Current
  <1>24. CASE Tick /\ UNCHANGED <<meterVars, walkVars, scriptVars>>
    <2>1. /\ now' = now + 1
          /\ now \in Int
          /\ t0 \in Int
          /\ t0' = t0
          /\ stream' = stream
          /\ Current' = Current
      BY <1>24 DEF Tick, Current, TypeInv, RunType, MeterType
    <2>2. meter' = meter /\ reading' = reading /\ script' = script
      BY <1>24 DEF Tick
    <2>3. meter \notin {"off", "open"} =>
            stream[Current] \in Seq(Samples) /\ \A i \in DOMAIN stream[Current] : stream[Current][i].t \in Nat /\ stream[Current][i].t <= now - t0
      <3>1. meter \notin {"off", "open"} =>
              stream[Current] \in Seq(Samples) /\ \A i \in DOMAIN stream[Current] : stream[Current][i].t <= now - t0
        BY DEF TypeInv, MeterType, IsStream, OrderInv
      <3>2. \A s \in Seq(Samples) : \A i \in DOMAIN s : s[i] \in Samples
        OBVIOUS
      <3>3. \A r \in Samples : r.t \in Nat
        BY DEF Samples
      <3>4. QED
        BY <3>1, <3>2, <3>3
    <2>4. meter \notin {"off", "open"} => \A i \in DOMAIN stream[Current] : stream[Current][i].t <= now' - t0
      BY <2>1, <2>3
    <2>5. meter = "write" => reading.t <= now' - t0
      BY <2>1 DEF OrderInv, TypeInv, MeterType, Samples
    <2>6. QED
      BY <2>1, <2>2, <2>4, <2>5 DEF OrderInv, Measuring
  <1>25. CASE Kill
    BY <1>25 DEF Kill, Forget, TypeInv, RunType, MeterType, ScriptType, Control, OrderInv,
       Measuring, Tags, IsStream, Current
  <1>26. CASE StartAgain
    BY <1>26 DEF StartAgain, TypeInv, RunType, MeterType, ScriptType, Control, OrderInv,
       Measuring, Tags, IsStream, Current
  <1>27. CASE UNCHANGED vars
    BY <1>27 DEF vars, TypeInv, RunType, MeterType, ScriptType, Control, OrderInv, Measuring,
       Tags, IsStream, Current
  <1>28. QED
    BY <1>1, <1>2, <1>3, <1>4, <1>5, <1>6, <1>7, <1>8, <1>9, <1>10, <1>11, <1>12, <1>13, <1>14,
       <1>15, <1>16, <1>17, <1>18, <1>19, <1>20, <1>21, <1>22, <1>23, <1>24, <1>25, <1>26, <1>27
       DEF Next, Script, Meter, Walk, Ended, Command, Work

\* Every step keeps sight of the command's end.
LEMMA EndStep ==
  ASSUME TypeInv, Control, OrderInv, EndInv, [Next]_vars
  PROVE  EndInv'
PROOF
  <1> USE DEF runVars, meterVars, walkVars, scriptVars
  <1>1. CASE SkipLeg
    BY <1>1 DEF SkipLeg, TypeInv, RunType, MeterType, Control, EndInv, Current
  <1>2. CASE StartLeg
    BY <1>2 DEF StartLeg, TypeInv, RunType, MeterType, Control, EndInv, Current
  <1>3. CASE ResetEpoch
    BY <1>3 DEF ResetEpoch, TypeInv, RunType, MeterType, Control, EndInv, Current
  <1>4. CASE Launch("build")
    BY <1>4 DEF Launch, Launched, TypeInv, RunType, MeterType, Control, EndInv, Current
  <1>5. CASE Launch("tag")
    BY <1>5 DEF Launch, Launched, TypeInv, RunType, MeterType, Control, EndInv, Current
  <1>6. CASE Collected("build", "tag")
    BY <1>6 DEF Collected, TypeInv, RunType, MeterType, Control, EndInv, Current
  <1>7. CASE Collected("tag", "merge")
    BY <1>7 DEF Collected, TypeInv, RunType, MeterType, Control, EndInv, Current
  <1>8. CASE Merge
    BY <1>8 DEF Merge, TypeInv, RunType, MeterType, Control, EndInv, Current
  <1>9. CASE EndLeg
    BY <1>9 DEF EndLeg, Forget, TypeInv, RunType, MeterType, Control, EndInv, Current
  <1>10. CASE Command /\ Truncate
    BY <1>10 DEF Command, Truncate, TypeInv, RunType, MeterType, Control, EndInv, Current
  <1>11. CASE Command /\ Announce
    BY <1>11 DEF Command, Announce, TypeInv, RunType, MeterType, Control, EndInv, Current
  <1>12. CASE Command /\ LoadIndex
    BY <1>12 DEF Command, LoadIndex, BeginEpoch, TypeInv, RunType, MeterType, Control, EndInv, Current
  <1>13. CASE Command /\ WriteEpoch
    BY <1>13 DEF Command, WriteEpoch, TypeInv, RunType, MeterType, Control, EndInv, Current
  <1>14. CASE Command /\ QueryEpoch
    BY <1>14 DEF Command, QueryEpoch, BeginEpoch, TypeInv, RunType, MeterType, Control, EndInv, Current
  <1>15. CASE Command /\ FinishBuild
    BY <1>15 DEF Command, FinishBuild, TypeInv, RunType, MeterType, Control, EndInv, Current
  <1>16. CASE Command /\ Fail
    BY <1>16 DEF Command, Fail, TypeInv, RunType, MeterType, Control, EndInv, Current
  <1>17. CASE OpenStream /\ UNCHANGED <<walkVars, scriptVars>>
    <2>1. /\ stream' = [stream EXCEPT ![Current] = <<>>] /\ Current' = Current
          /\ Current \in DOMAIN stream
      BY <1>17 DEF OpenStream, Current, TypeInv, MeterType
    <2>2. stream'[Current'] = <<>>
      BY <2>1
    <2>3. meter' = "rss" /\ UNCHANGED <<process, ended, now, running>>
      BY <1>17 DEF OpenStream
    <2>4. QED
      BY <2>2, <2>3 DEF EndInv
  <1>18. CASE ReadRss /\ UNCHANGED <<walkVars, scriptVars>>
    BY <1>18 DEF ReadRss, read_rss_mb, TypeInv, RunType, MeterType, Control, EndInv, Current
  <1>19. CASE Poll /\ UNCHANGED <<walkVars, scriptVars>>
    <2>1. /\ meter = "poll" /\ meter' = "write"
          /\ running' = (process = "running")
          /\ process' = IF process = "zombie" THEN "reaped" ELSE process
          /\ reading' = [reading EXCEPT !.t = now - t0]
          /\ Current' = Current
          /\ UNCHANGED <<now, ended, t0, stream>>
      BY <1>19 DEF Poll, Current
    <2>2. reading'.t = now - t0 /\ reading'.rss = reading.rss
      BY <2>1 DEF TypeInv, MeterType, Samples
    <2>3. process # "none"
      BY <2>1 DEF Control
    <2>4. ended <= now /\ now - t0 >= ended - t0
      BY <2>3 DEF EndInv, TypeInv, RunType, MeterType
    <2>5. running' \in BOOLEAN
      BY <2>1
    <2>6. QED
      BY <2>1, <2>2, <2>4, <2>5 DEF EndInv
  <1>20. CASE WriteSample /\ UNCHANGED <<walkVars, scriptVars>>
    <2> DEFINE s == stream[Current]
               n == Len(s)
    <2>1. /\ stream' = [stream EXCEPT ![Current] = Append(s, Sample)] /\ Current' = Current
          /\ Current \in DOMAIN stream
          /\ meter = "write" /\ meter' = IF running THEN "sleep" ELSE "exit"
          /\ UNCHANGED <<now, process, ended, t0, running>>
      BY <1>20 DEF WriteSample, StreamGrown, Current, TypeInv, MeterType
    <2>2. s \in Seq(Samples) /\ Sample \in Samples
      BY <2>1, SampleType DEF Sample, TypeInv, MeterType, IsStream
    <2>3. Sample.rss = reading.rss /\ Sample.t = reading.t
      BY DEF Sample, TypeInv, MeterType, Samples
    <2>4. stream'[Current'] = Append(s, Sample)
      BY <2>1
    <2>5. \A i \in DOMAIN s : s[i].rss # 0
      BY <2>1 DEF EndInv
    <2> HIDE DEF s
    <2>6. /\ n \in Nat /\ DOMAIN s = 1 .. n /\ DOMAIN Append(s, Sample) = 1 .. n + 1
          /\ Len(Append(s, Sample)) = n + 1 /\ Append(s, Sample) # <<>>
          /\ \A i \in 1 .. n : Append(s, Sample)[i] = s[i]
          /\ Append(s, Sample)[n + 1] = Sample
      BY <2>2
    <2> HIDE DEF n
    <2>7. \A i \in 1 .. n + 1 : i \in 1 .. n \/ i = n + 1
      BY <2>6
    <2>8. CASE running
      <3>1. \A i \in 1 .. n + 1 : Append(s, Sample)[i].rss # 0
        BY <2>1, <2>3, <2>5, <2>6, <2>7, <2>8 DEF EndInv
      <3>2. QED
        BY <2>1, <2>4, <2>6, <2>8, <3>1 DEF EndInv
    <2>9. CASE ~running
      <3>1. \A i \in 1 .. n + 1 : Append(s, Sample)[i].rss = 0 => i = n + 1
        BY <2>5, <2>6, <2>7
      <3>2. Append(s, Sample)[n + 1].t >= ended - t0
        BY <2>1, <2>3, <2>6, <2>9 DEF EndInv
      <3>3. QED
        BY <2>1, <2>4, <2>6, <2>9, <3>1, <3>2 DEF EndInv
    <2>10. QED
      BY <2>8, <2>9
  <1>21. CASE Wake /\ UNCHANGED <<walkVars, scriptVars>>
    BY <1>21 DEF Wake, TypeInv, RunType, MeterType, Control, EndInv, Current
  <1>22. CASE BeginWalk /\ UNCHANGED scriptVars
    BY <1>22 DEF BeginWalk, TypeInv, RunType, MeterType, Control, EndInv, Current
  <1>23. CASE EndWalk /\ UNCHANGED scriptVars
    BY <1>23 DEF EndWalk, TypeInv, RunType, MeterType, Control, EndInv, Current
  <1>24. CASE Tick /\ UNCHANGED <<meterVars, walkVars, scriptVars>>
    BY <1>24 DEF Tick, TypeInv, RunType, MeterType, Control, EndInv, Current
  <1>25. CASE Kill
    BY <1>25 DEF Kill, Forget, TypeInv, RunType, MeterType, Control, EndInv, Current
  <1>26. CASE StartAgain
    BY <1>26 DEF StartAgain, TypeInv, RunType, MeterType, Control, EndInv, Current
  <1>27. CASE UNCHANGED vars
    BY <1>27 DEF vars, TypeInv, RunType, MeterType, Control, EndInv, Current
  <1>28. QED
    BY <1>1, <1>2, <1>3, <1>4, <1>5, <1>6, <1>7, <1>8, <1>9, <1>10, <1>11, <1>12, <1>13, <1>14,
       <1>15, <1>16, <1>17, <1>18, <1>19, <1>20, <1>21, <1>22, <1>23, <1>24, <1>25, <1>26, <1>27
       DEF Next, Script, Meter, Walk, Ended, Command, Work

\* Every step keeps the joined stream in order.
LEMMA MergedStep ==
  ASSUME TypeInv, OrderInv, MergedOrdered, [Next]_vars
  PROVE  MergedOrdered'
PROOF
  <1> USE DEF runVars, meterVars, walkVars, scriptVars
  <1>1. CASE SkipLeg
    BY <1>1 DEF SkipLeg, MergedOrdered
  <1>2. CASE StartLeg
    BY <1>2 DEF StartLeg, Cleaned, NoStreams, MergedOrdered
  <1>3. CASE ResetEpoch
    BY <1>3 DEF ResetEpoch, MergedOrdered
  <1>4. CASE Launch("build")
    BY <1>4 DEF Launch, Launched, MergedOrdered
  <1>5. CASE Launch("tag")
    BY <1>5 DEF Launch, Launched, MergedOrdered
  <1>6. CASE Collected("build", "tag")
    BY <1>6 DEF Collected, MergedOrdered
  <1>7. CASE Collected("tag", "merge")
    BY <1>7 DEF Collected, MergedOrdered
  <1>8. CASE Merge
    <2>1. /\ Untagged(stream["build"])
          /\ stream["build"] # Absent
          /\ stream["tag"] # Absent
          /\ stream["tag"] \in Seq(Samples)
      BY <1>8, SampleAssumption DEF Merge, OrderInv, Untagged, IsStream
    <2>2. Ordered(stream["build"]) /\ Ordered(stream["tag"])
      BY <1>8, <2>1 DEF Merge, OrderInv, Measuring
    <2> DEFINE run == [i \in DOMAIN stream["tag"] |-> [stream["tag"][i] EXCEPT !.t = stream["tag"][i].t + Offset]]
    <2>3. merged'.rows = stream["build"] \o run
      BY <1>8 DEF Merge, Shifted
    <2>4. Offset \in Nat
      <3>1. stream["build"] \in Seq(Samples) /\ Len(stream["build"]) \in DOMAIN stream["build"]
        BY <2>1 DEF Untagged
      <3>2. QED
        BY <3>1, SampleFields DEF Offset
    <2>5. run \in Seq(Samples) /\ Ordered(run) /\ \A i \in DOMAIN run : run[i].t >= Offset
      BY <2>1, <2>2, <2>4, ShiftOrdered
    <2>6. Ordered(stream["build"] \o run)
      BY <2>1, <2>2, <2>5, JoinOrdered DEF Offset
    <2>7. QED
      BY <2>3, <2>6 DEF MergedOrdered
  <1>9. CASE EndLeg
    BY <1>9 DEF EndLeg, Forget, NoStreams, MergedOrdered
  <1>10. CASE Command /\ Truncate
    BY <1>10 DEF Command, Truncate, MergedOrdered
  <1>11. CASE Command /\ Announce
    BY <1>11 DEF Command, Announce, MergedOrdered
  <1>12. CASE Command /\ LoadIndex
    BY <1>12 DEF Command, LoadIndex, BeginEpoch, MergedOrdered
  <1>13. CASE Command /\ WriteEpoch
    BY <1>13 DEF Command, WriteEpoch, MergedOrdered
  <1>14. CASE Command /\ QueryEpoch
    BY <1>14 DEF Command, QueryEpoch, BeginEpoch, MergedOrdered
  <1>15. CASE Command /\ FinishBuild
    BY <1>15 DEF Command, FinishBuild, MergedOrdered
  <1>16. CASE Command /\ Fail
    BY <1>16 DEF Command, Fail, MergedOrdered
  <1>17. CASE OpenStream /\ UNCHANGED <<walkVars, scriptVars>>
    BY <1>17 DEF OpenStream, MergedOrdered
  <1>18. CASE ReadRss /\ UNCHANGED <<walkVars, scriptVars>>
    BY <1>18 DEF ReadRss, MergedOrdered
  <1>19. CASE Poll /\ UNCHANGED <<walkVars, scriptVars>>
    BY <1>19 DEF Poll, MergedOrdered
  <1>20. CASE WriteSample /\ UNCHANGED <<walkVars, scriptVars>>
    BY <1>20 DEF WriteSample, MergedOrdered
  <1>21. CASE Wake /\ UNCHANGED <<walkVars, scriptVars>>
    BY <1>21 DEF Wake, MergedOrdered
  <1>22. CASE BeginWalk /\ UNCHANGED scriptVars
    BY <1>22 DEF BeginWalk, MergedOrdered
  <1>23. CASE EndWalk /\ UNCHANGED scriptVars
    BY <1>23 DEF EndWalk, MergedOrdered
  <1>24. CASE Tick /\ UNCHANGED <<meterVars, walkVars, scriptVars>>
    BY <1>24 DEF Tick, MergedOrdered
  <1>25. CASE Kill
    BY <1>25 DEF Kill, Forget, MergedOrdered
  <1>26. CASE StartAgain
    BY <1>26 DEF StartAgain, MergedOrdered
  <1>27. CASE UNCHANGED vars
    BY <1>27 DEF vars, MergedOrdered
  <1>28. QED
    BY <1>1, <1>2, <1>3, <1>4, <1>5, <1>6, <1>7, <1>8, <1>9, <1>10, <1>11, <1>12, <1>13, <1>14,
       <1>15, <1>16, <1>17, <1>18, <1>19, <1>20, <1>21, <1>22, <1>23, <1>24, <1>25, <1>26, <1>27
       DEF Next, Script, Meter, Walk, Ended, Command, Work

\* The campaign starts with all of it.
LEMMA InitInv == Init => IInv
PROOF
  <1> SUFFICES ASSUME Init PROVE IInv
    OBVIOUS
  <1>1. TypeInv
    <2>1. RunType
      BY DEF Init, RunType, Tags
    <2>2. MeterType
      BY NoReadingType, NoStreamsType DEF Init, MeterType
    <2>3. ScriptType
      BY DEF Init, ScriptType, NoTag
    <2>4. QED
      BY <2>1, <2>2, <2>3 DEF TypeInv
  <1>2. Control
    BY DEF Init, Control
  <1>3. BoolInv
    BY DEF Init, BoolInv
  <1>4. TagInv
    BY DEF Init, TagInv, Measuring
  <1>5. RowsInv
    BY DEF Init, RowsInv
  <1>6. OrderInv
    BY DEF Init, OrderInv, Measuring
  <1>7. EndInv
    BY DEF Init, EndInv
  <1>8. MergedOrdered
    BY DEF Init, MergedOrdered
  <1>9. QED
    BY <1>1, <1>2, <1>3, <1>4, <1>5, <1>6, <1>7, <1>8 DEF IInv

\* The invariant holds of every behaviour.
LEMMA Invariance == Spec => []IInv
PROOF
  <1>1. IInv /\ [Next]_vars => IInv'
    <2> SUFFICES ASSUME IInv, [Next]_vars PROVE IInv'
      OBVIOUS
    <2>1. TypeInv' /\ Control' /\ BoolInv'
      BY TypeStep, ControlStep, BoolStep DEF IInv
    <2>2. TagInv' /\ RowsInv' /\ OrderInv'
      BY TagStep, RowsStep, OrderStep DEF IInv
    <2>3. EndInv' /\ MergedOrdered'
      BY EndStep, MergedStep DEF IInv
    <2>4. QED
      BY <2>1, <2>2, <2>3 DEF IInv
  <1>2. QED
    BY InitInv, <1>1, PTL DEF Spec

\* No sample of the memory or of the page cache is filed under an epoch that was not announced, or
\* under one before the epoch announced when its value was read: never under an epoch an earlier
\* attempt left behind (run_spfresh.sh, mem_sampler.py, cache_sampler.py).
THEOREM TagsKept == Spec => []TagsHonest
PROOF
  <1>1. IInv => TagsHonest
    <2> SUFFICES ASSUME IInv, script \in {"reset", "build", "tag", "merge"} PROVE TagsHonest
      BY DEF TagsHonest
    <2>1. DOMAIN stream = {"build", "tag"}
      BY DEF IInv, TypeInv, MeterType
    <2>2. ASSUME NEW c \in {"build", "tag"}, stream[c] # Absent, NEW i \in DOMAIN stream[c]
          PROVE  Honest(stream[c][i])
      <3>1. Measuring
        <4>1. script # "reset"
          BY <2>2 DEF IInv, TagInv, NoStreams
        <4>2. QED
          BY <4>1 DEF Measuring
      <3>2. QED
        BY <2>2, <3>1 DEF IInv, TagInv
    <2>3. \A i \in DOMAIN cache : Honest(cache[i])
      BY DEF IInv, TagInv, Measuring
    <2>4. QED
      BY <2>1, <2>2, <2>3 DEF TagsHonest
  <1>2. QED
    BY <1>1, Invariance, PTL

\* What a leg leaves behind is sound, however often the campaign was killed: the joined stream was
\* made in the attempt that wrote the rows, all the rows are there, and neither its time nor its
\* epoch runs back (run_byte_step1.sh done50, run_spfresh.sh).
THEOREM MergeSound == Spec => []MergedSound
PROOF
  <1>1. IInv => MergedSound
    <2> SUFFICES ASSUME IInv PROVE MergedSound
      OBVIOUS
    <2>1. concurrent \in BOOLEAN /\ failed \in BOOLEAN
      BY DEF IInv, BoolInv
    <2>2. file # Absent => file = <<>> \/ (Len(file) = 1 /\ file[1] \in Tags)
      BY DEF IInv, TypeInv, RunType
    <2>3. now \in 0 .. MaxTime
      BY DEF IInv, TypeInv, RunType
    <2>4. TypeOK
      BY <2>1, <2>2, <2>3 DEF IInv, TypeInv, RunType, MeterType, ScriptType, Control, RowsInv,
         TypeOK
    <2>5. MergedWithRows
      BY DEF IInv, RowsInv, AllRows, MergedWithRows
    <2>6. QED
      BY <2>4, <2>5 DEF IInv, MergedSound
  <1>2. QED
    BY <1>1, Invariance, PTL

\* The build time read from a stream is at least the time of its last sample.
LEMMA BuildTimeRead ==
  ASSUME NEW s \in Seq(Samples), s # <<>>, Ordered(s), \A i \in DOMAIN s : s[i].epoch = -1
  PROVE  build_time_s(s) = s[Len(s)].t
PROOF
  <1> DEFINE last == s[Len(s)].t
             times == {x.t : x \in Building(s)}
  <1>1. Len(s) \in Nat /\ DOMAIN s = 1 .. Len(s) /\ Len(s) \in DOMAIN s
    OBVIOUS
  <1>2. \A i \in DOMAIN s : s[i].t \in Nat
    BY SampleFields
  <1>3. \A i \in DOMAIN s : s[i].t <= last
    <2> SUFFICES ASSUME NEW i \in DOMAIN s
                 PROVE  s[i].t <= last
      OBVIOUS
    <2>1. i < Len(s) \/ i = Len(s)
      BY <1>1
    <2>2. QED
      BY <2>1, <1>1, <1>2 DEF Ordered
  <1>4. times = {s[i].t : i \in DOMAIN s} /\ Building(s) # {}
    BY <1>1 DEF Building, ToSet
  <1>5. last \in times /\ \A y \in times : last >= y /\ y \in Nat
    BY <1>1, <1>2, <1>3, <1>4
  <1> HIDE DEF times, last
  <1>6. Max(times) = last
    <2>1. Max(times) \in times /\ \A y \in times : Max(times) >= y
      BY <1>5 DEF Max
    <2>2. QED
      BY <2>1, <1>5
  <1>7. QED
    BY <1>4, <1>6 DEF build_time_s, times, last

\* Every command is sampled until it has ended and once more: no sample but the last is without
\* memory, the last one is not earlier than the end, and the build time read from the stream of a
\* build is not shorter than the build (mem_sampler.py, bench.py build_time_s).
THEOREM SeenWhole == Spec => []SeenToTheEnd
PROOF
  <1>1. IInv => SeenToTheEnd
    <2> SUFFICES ASSUME IInv, meter = "exit"
                 PROVE  LET s == stream[Current]
                        IN /\ s # <<>> /\ s[Len(s)].t >= ended - t0
                           /\ \A i \in DOMAIN s : s[i].rss = 0 => i = Len(s)
                           /\ phase = "build" => build_time_s(s) >= ended - t0
      BY DEF SeenToTheEnd
    <2> DEFINE s == stream[Current]
    <2>1. /\ s # <<>> /\ s[Len(s)].t >= ended - t0
          /\ \A i \in DOMAIN s : s[i].rss = 0 => i = Len(s)
      BY DEF IInv, EndInv
    <2>2. s \in Seq(Samples) /\ Current \in {"build", "tag"}
      BY DEF IInv, TypeInv, MeterType, IsStream, Current
    <2>3. Ordered(s)
      BY <2>2, SampleAssumption DEF IInv, Control, OrderInv, Measuring
    <2>4. ASSUME phase = "build"
          PROVE  build_time_s(s) >= ended - t0
      <3>1. script = "build" /\ announced = -1
        BY <2>4 DEF IInv, Control
      <3>2. \A i \in DOMAIN s : Honest(s[i])
        BY <2>2, <3>1, SampleAssumption DEF IInv, TagInv, Measuring
      <3> HIDE DEF s
      <3>3. \A i \in DOMAIN s : s[i].epoch \in Tags /\ s[i].epoch <= -1
        <4>1. \A i \in DOMAIN s : s[i] \in Samples
          BY <2>2
        <4>2. \A i \in DOMAIN s : s[i].epoch \in Tags
          BY <4>1 DEF Samples
        <4>3. QED
          BY <4>2, <3>1, <3>2 DEF Honest, Tags
      <3>4. \A i \in DOMAIN s : s[i].epoch = -1
        BY <3>3 DEF Tags
      <3>5. build_time_s(s) = s[Len(s)].t
        BY <2>1, <2>2, <2>3, <3>4, BuildTimeRead
      <3>6. QED
        BY <2>1, <3>5
    <2>5. QED
      BY <2>1, <2>4
  <1>2. QED
    BY <1>1, Invariance, PTL
=============================================================================
