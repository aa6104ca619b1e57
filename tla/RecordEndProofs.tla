-------------------------- MODULE RecordEndProofs --------------------------
(***************************************************************************)
(* What becomes of a recording whose encoders have finished, for every     *)
(* value of the constants: the last encoder thread starts the muxer, and a *)
(* released recording is neither muxed nor reported.  The facts about      *)
(* pointers, flags and files come from RecordSessionProofs.                *)
(***************************************************************************)
EXTENDS RecordSessionProofs

\* A track is announced only after its file was closed, always.
THEOREM ClosedHolds == Spec => []Closed
<1>1. Init => Closed
  BY InitFrames
<1>2. TypeOK /\ PointerInv /\ Closed /\ [Next]_vars => Closed'
  BY ClosedStep
<1> QED BY TypeCorrect, PointersCorrect, <1>1, <1>2, PTL DEF Spec
-----------------------------------------------------------------------------
(* The strengthening: LastOneMuxes alone does not say that a thread that   *)
(* looks at both states has set its own, nor that only a thread which saw  *)
(* both is past the muxer.                                                 *)

MuxerPcs == {"mux", "notify", "free"}
Announced ==
  \A e \in Encoders :
    /\ pc[e] = "check" => state[e]
    /\ pc[e] \in MuxerPcs => muxed[e[1]] > 0
Results ==
  \A s \in Sessions :
    /\ muxed[s] > 0 => BothEnded(s)
    /\ notified[s] > 0 => muxed[s] > 0
ResultInv == Announced /\ Results /\ LastOneMuxes

\* Before the first recording nothing was muxed and no thread runs.
LEMMA InitResultInv == Init => ResultInv
  BY DEF Init, ResultInv, Announced, Results, LastOneMuxes, Encoders, Tracks, MuxerPcs,
         AfterCheck

\* What one step of an encoder thread does to the results of its session.
LEMMA EncoderResults ==
  ASSUME TypeOK, PointerInv, Closed, ResultInv, NEW e \in Encoders, EncoderStep(e)
  PROVE  /\ \A s \in Sessions : s # e[1] => muxed'[s] = muxed[s] /\ notified'[s] = notified[s]
         /\ muxed[e[1]] > 0 => muxed'[e[1]] > 0
         /\ muxed'[e[1]] > 0 => muxed[e[1]] > 0 \/ BothEnded(e[1])
         /\ notified'[e[1]] > 0 => muxed'[e[1]] > 0
         /\ pc'[e] = "check" => state'[e]
         /\ pc'[e] \in MuxerPcs => muxed'[e[1]] > 0
         /\ state'[e] /\ pc'[e] \in AfterCheck =>
              \/ state[e] /\ pc[e] \in AfterCheck
              \/ muxed'[e[1]] > 0
              \/ ~BothEnded(e[1]) /\ state' = state
<1> DEFINE s == e[1]
<1>1. s \in Sessions /\ muxed[s] \in Nat /\ notified[s] \in Nat
  BY DEF Encoders, TypeOK, ResultOK
<1> USE DEF GoTo, AfterCheck, MuxerPcs
<1>2. CASE TestEnd(e) \/ TestDrained(e)
  BY <1>1, <1>2 DEF TestEnd, TestDrained, AfterTestEnd, handlerVars, resultVars, ResultInv,
     Results, Closed, TypeOK, ThreadOK
<1>3. CASE TestRelease(e) \/ TakeFrame(e) \/ DeleteEncoder(e)
  BY <1>1, <1>3 DEF TestRelease, AfterTestRelease, TakeFrame, DeleteEncoder, handlerVars,
     resultVars, ResultInv, Results, Closed, TypeOK, ThreadOK
<1>4. CASE FlushAndClose(e)
  <2>1. ~state[e] /\ UNCHANGED <<state, muxed, notified>>
    BY <1>4 DEF FlushAndClose, Closed, handlerVars, resultVars
  <2>2. pc'[e] \in {"set_state", "delete"}
    BY <1>4 DEF FlushAndClose, TypeOK, ThreadOK
  <2> QED BY <1>1, <2>1, <2>2 DEF ResultInv, Results
<1>5. CASE SetState(e)
  BY <1>1, <1>5 DEF SetState, resultVars, ResultInv, Results, Announced, TypeOK, ThreadOK,
     ResultOK
<1>6. CASE TryEncodeOver(e)
  BY <1>1, <1>6 DEF TryEncodeOver, handlerVars, ResultInv, Results, Announced, TypeOK, ThreadOK,
     ResultOK
<1>7. CASE Mux(e)
  BY <1>1, <1>7 DEF Mux, handlerVars, ResultInv, Results, Announced, TypeOK, ThreadOK
<1>8. CASE Notify(e)
  <2>1. muxed[s] > 0 /\ UNCHANGED <<state, muxed>>
    BY <1>8 DEF Notify, handlerVars, ResultInv, Announced
  <2>2. notified' = notified \/ notified' = [notified EXCEPT ![s] = @ + 1]
    BY <1>8 DEF Notify
  <2>3. pc'[e] \in {"notify", "free", "delete"}
    BY <1>8 DEF Notify, TypeOK, ThreadOK
  <2> QED BY <1>1, <2>1, <2>2, <2>3 DEF TypeOK, ResultOK
<1>9. CASE FreeHandler(e)
  <2>1. muxed[s] > 0 /\ UNCHANGED <<state, muxed, notified>>
    BY <1>9 DEF FreeHandler, resultVars, ResultInv, Announced
  <2>2. pc'[e] \in {"free", "delete"}
    BY <1>9 DEF FreeHandler, TypeOK, ThreadOK
  <2> QED BY <1>1, <2>1, <2>2
<1> QED BY <1>2, <1>3, <1>4, <1>5, <1>6, <1>7, <1>8, <1>9 DEF EncoderStep

\* Encoder threads keep the invariant.
LEMMA ResultInvEncoder ==
  ASSUME TypeOK, PointerInv, Closed, ResultInv, NEW e \in Encoders, EncoderStep(e)
  PROVE  ResultInv'
<1> DEFINE own == e[1]
<1>0. e = <<e[1], e[2]>> /\ e[1] \in Sessions /\ e[2] \in Tracks
  BY DEF Encoders
<1>1. \A g \in Encoders : /\ g[1] \in Sessions
                          /\ g # e => pc'[g] = pc[g] /\ state'[g] = state[g]
                          /\ state[g] => state'[g]
  BY EncoderCloses DEF Encoders
<1>2. \A s \in Sessions, t \in Tracks : <<s, t>> \in Encoders
  BY DEF Encoders
<1>3. \A s \in Sessions : BothEnded(s) => BothEnded(s)'
  BY <1>1, <1>2 DEF BothEnded
<1>4. \A s \in Sessions : muxed[s] > 0 => muxed'[s] > 0
  BY EncoderResults
<1>5. Announced'
  <2> SUFFICES ASSUME NEW g \in Encoders
               PROVE  /\ pc'[g] = "check" => state'[g]
                      /\ pc'[g] \in MuxerPcs => muxed'[g[1]] > 0
    BY DEF Announced
  <2>1. CASE g = e
    BY <2>1, EncoderResults
  <2>2. CASE g # e
    BY <1>1, <1>4, <2>2 DEF ResultInv, Announced
  <2> QED BY <2>1, <2>2
<1>6. Results'
  <2> SUFFICES ASSUME NEW s \in Sessions
               PROVE  /\ muxed'[s] > 0 => BothEnded(s)'
                      /\ notified'[s] > 0 => muxed'[s] > 0
    BY DEF Results
  <2>1. CASE s = own
    BY <1>3, <2>1, EncoderResults DEF ResultInv, Results
  <2>2. CASE s # own
    BY <1>3, <2>2, EncoderResults DEF ResultInv, Results
  <2> QED BY <2>1, <2>2
<1>7. LastOneMuxes'
  <2> SUFFICES ASSUME NEW s \in Sessions,
                      \A t \in Tracks : state'[<<s, t>>] /\ pc'[<<s, t>>] \in AfterCheck,
                      ~(muxed'[s] > 0)
               PROVE  FALSE
    BY DEF LastOneMuxes
  <2>1. ~(muxed[s] > 0)
    BY <1>4
  <2>2. PICK t \in Tracks : ~(state[<<s, t>>] /\ pc[<<s, t>>] \in AfterCheck)
    BY <2>1 DEF ResultInv, LastOneMuxes
  <2>3. <<s, t>> = e /\ s = own
    BY <1>0, <1>1, <1>2, <2>2
  <2>4. ~BothEnded(s) /\ state' = state
    BY <2>2, <2>3, EncoderResults
  <2> QED BY <2>4 DEF BothEnded
<1> QED BY <1>5, <1>6, <1>7 DEF ResultInv

\* No other step of a call or a thread changes a result, a state or the place of
\* a thread that has announced its end.
LEMMA ResultInvAlone ==
  ASSUME ResultInv, UNCHANGED <<state, muxed, notified>>,
         \A e \in Encoders : \/ pc'[e] = pc[e]
                             \/ ~state[e] /\ pc'[e] \notin {"check"} \cup MuxerPcs
  PROVE  ResultInv'
<1>1. \A s \in Sessions, t \in Tracks : <<s, t>> \in Encoders
  BY DEF Encoders
<1>2. Announced' /\ Results'
  BY DEF ResultInv, Announced, Results, BothEnded
<1>3. LastOneMuxes'
  BY <1>1 DEF ResultInv, LastOneMuxes
<1> QED BY <1>2, <1>3 DEF ResultInv

\* The invariant is inductive.
LEMMA ResultInvStep ==
  ASSUME TypeOK, PointerInv, Closed, ResultInv, [Next]_vars
  PROVE  ResultInv'
<1>1. ASSUME NEW e \in Encoders, EncoderStep(e) PROVE ResultInv'
  BY <1>1, ResultInvEncoder
<1>2. CASE UNCHANGED <<pc, state, muxed, notified>>
  BY <1>2, ResultInvAlone
<1>3. ASSUME NEW t \in Tracks, NEW done, InitEncoder(t, done), pc[<<cur, t>>] = "new",
             cur \in Sessions
      PROVE  ResultInv'
  <2>1. <<cur, t>> \in Encoders /\ ~state[<<cur, t>>]
    BY <1>3 DEF Encoders, Closed, AfterCheck
  <2>2. \/ pc' = [pc EXCEPT ![<<cur, t>>] = "loop"]
        \/ pc' = [pc EXCEPT ![<<cur, t>>] = "failed"]
    BY <1>3 DEF InitEncoder
  <2>3. UNCHANGED <<state, muxed, notified>>
    BY <1>3 DEF InitEncoder, handlerVars, resultVars
  <2>4. \A g \in Encoders : \/ pc'[g] = pc[g]
                            \/ ~state[g] /\ pc'[g] \notin {"check"} \cup MuxerPcs
    BY <2>1, <2>2 DEF TypeOK, ThreadOK, MuxerPcs
  <2> QED BY <2>3, <2>4, ResultInvAlone
<1>4. CASE InitVideoEncoder \/ InitAudioEncoder
  BY <1>3, <1>4 DEF InitVideoEncoder, InitAudioEncoder, PointerInv, InitPcs, Tracks
<1>5. CASE MainStep
  BY <1>2, <1>4, <1>5 DEF MainStep, FinishStart, EndVideo, EndAudio, NullAudio, ReleaseVideo,
     ReleaseFlag, InterruptAudio, handlerVars, resultVars
<1>6. ASSUME NEW r \in Recorders, StartRecord(r) PROVE ResultInv'
  <2>1. \A e \in Encoders : state[e] => e[1] # cur + 1
    BY <1>6 DEF Closed, PointerInv, Unborn, Encoders, AfterCheck, TypeOK, SessionOK
  <2>2. UNCHANGED <<state, muxed, notified>>
    BY <1>6 DEF StartRecord, handlerVars, resultVars
  <2>3. \A e \in Encoders : pc'[e] = IF e[1] = cur + 1 THEN "new" ELSE pc[e]
    BY <1>6 DEF StartRecord
  <2> QED BY <2>1, <2>2, <2>3, ResultInvAlone DEF MuxerPcs
<1>7. ASSUME UserStep, ~ \E r \in Recorders : StartRecord(r) PROVE ResultInv'
  BY <1>2, <1>7 DEF UserStep, ReopenScreen, PreviewFrame, StopRecord, Release, handlerVars,
     resultVars
<1>8. ASSUME NEW r \in Recorders, CaptureAudio(r) \/ AudioStep(r) PROVE ResultInv'
  BY <1>2, <1>8 DEF CaptureAudio, AudioStep, LoadEncoder, SendOneFrame, EndAudioThread,
     handlerVars, resultVars
<1>9. CASE UNCHANGED vars
  BY <1>2, <1>9 DEF vars, handlerVars, resultVars
<1> QED BY <1>1, <1>5, <1>6, <1>7, <1>8, <1>9 DEF Next

\* The invariant holds in every reachable state.
THEOREM ResultsCorrect == Spec => []ResultInv
<1>1. TypeOK /\ PointerInv /\ Closed /\ ResultInv /\ [Next]_vars => ResultInv'
  BY ResultInvStep
<1> QED BY InitResultInv, TypeCorrect, PointersCorrect, ClosedHolds, <1>1, PTL DEF Spec

\* Whichever encoder thread finishes last starts the muxer.
THEOREM LastOneMuxesHolds == Spec => []LastOneMuxes
<1>1. ResultInv => LastOneMuxes
  BY DEF ResultInv
<1> QED BY ResultsCorrect, <1>1, PTL

\* A recording given up by nativeRelease is neither muxed nor reported.
THEOREM ReleasedNeverMuxedHolds == Spec => []ReleasedNeverMuxed
<1>1. TypeOK /\ Closed /\ OneCleanup /\ ResultInv => ReleasedNeverMuxed
  <2> SUFFICES ASSUME TypeOK, Closed, OneCleanup, ResultInv, NEW e \in Encoders, is_release[e]
               PROVE  muxed[e[1]] = 0 /\ notified[e[1]] = 0
    BY DEF ReleasedNeverMuxed
  <2>1. /\ e = <<e[1], e[2]>> /\ e[1] \in Sessions /\ e[2] \in Tracks
        /\ muxed[e[1]] \in Nat /\ notified[e[1]] \in Nat
    BY DEF Encoders, TypeOK, ResultOK
  <2>2. ~is_end[e]
    BY DEF OneCleanup
  <2>3. ~state[e]
    BY <2>2 DEF Closed
  <2>4. ~BothEnded(e[1])
    BY <2>1, <2>3 DEF BothEnded
  <2>5. ~(muxed[e[1]] > 0) /\ ~(notified[e[1]] > 0)
    BY <2>1, <2>4 DEF ResultInv, Results
  <2> QED BY <2>1, <2>5
<1> QED BY TypeCorrect, ClosedHolds, OneCleanupHolds, ResultsCorrect, <1>1, PTL
-----------------------------------------------------------------------------
(* The pipeline takes only the steps of a RecordingJob.                    *)

\* what the mapping shows of one session
JobOf(s) == <<Phase(s), Len(sent[<<s, "video">>]),
              IF muxed[s] > 0 THEN Len(encoded[<<s, "video">>]) ELSE 0>>

\* while its output is opened a video encoder has not been told to end
FreshVideo == mainPc = "init_video" => ~is_end[<<cur, "video">>]

\* A step that shows nothing new of any session is none of the job.
LEMMA JobStutters ==
  ASSUME fault' = fault, \A s \in Sessions : JobOf(s)' = JobOf(s)
  PROVE  UNCHANGED Job!vars
  BY DEF JobOf, Job!vars

\* A wrong access stops the job and shows nothing else.
LEMMA JobStops ==
  ASSUME fault = NoFault, fault' # NoFault, \A s \in Sessions : JobOf(s)' = JobOf(s)
  PROVE  Job!Next
  BY DEF JobOf, Job!Next, Job!Stop

\* A step that moves one session to another phase, and shows nothing else.
LEMMA JobAdvances ==
  ASSUME fault = NoFault, fault' = fault, NEW s \in Sessions,
         \A o \in Sessions : o # s => JobOf(o)' = JobOf(o),
         Len(sent'[<<s, "video">>]) = Len(sent[<<s, "video">>]),
         \/ Phase(s) = "none" /\ Phase(s)' = "recording"
         \/ Phase(s) = "recording" /\ Phase(s)' \in {"ended", "given_up"}
         \/ Phase(s) = "muxing" /\ Phase(s)' = "reported",
         (IF muxed[s] > 0 THEN Len(encoded[<<s, "video">>]) ELSE 0)'
           = IF muxed[s] > 0 THEN Len(encoded[<<s, "video">>]) ELSE 0
  PROVE  Job!Next
<1> DEFINE phases == [o \in Sessions |-> Phase(o)]
           captured == [o \in Sessions |-> Len(sent[<<o, "video">>])]
           clip == [o \in Sessions |-> IF muxed[o] > 0 THEN Len(encoded[<<o, "video">>]) ELSE 0]
<1>1. captured' = captured /\ clip' = clip
  BY DEF JobOf
<1>2. phases' = [phases EXCEPT ![s] = Phase(s)']
  BY DEF JobOf
<1>3. phases[s] = Phase(s)
  OBVIOUS
<1> QED BY <1>1, <1>2, <1>3 DEF Job!Next, Job!Start, Job!End, Job!GiveUp, Job!Report, Job!Advance

\* A frame that is captured.
LEMMA JobCaptures ==
  ASSUME fault = NoFault, fault' = fault, NEW s \in Sessions,
         \A o \in Sessions : o # s => JobOf(o)' = JobOf(o),
         Phase(s) = "recording", Phase(s)' = "recording",
         Len(sent'[<<s, "video">>]) = Len(sent[<<s, "video">>]) + 1,
         (IF muxed[s] > 0 THEN Len(encoded[<<s, "video">>]) ELSE 0)'
           = IF muxed[s] > 0 THEN Len(encoded[<<s, "video">>]) ELSE 0
  PROVE  Job!Next
<1> DEFINE phases == [o \in Sessions |-> Phase(o)]
           captured == [o \in Sessions |-> Len(sent[<<o, "video">>])]
           clip == [o \in Sessions |-> IF muxed[o] > 0 THEN Len(encoded[<<o, "video">>]) ELSE 0]
<1>1. phases' = phases /\ clip' = clip
  BY DEF JobOf
<1>2. captured' = [captured EXCEPT ![s] = @ + 1]
  BY DEF JobOf
<1>3. phases[s] = "recording"
  OBVIOUS
<1> QED BY <1>1, <1>2, <1>3 DEF Job!Next, Job!Capture

\* A muxer that is started, on every frame captured.
LEMMA JobMuxes ==
  ASSUME fault = NoFault, fault' = fault, NEW s \in Sessions,
         \A o \in Sessions : o # s => JobOf(o)' = JobOf(o),
         Phase(s) = "ended", Phase(s)' = "muxing",
         Len(sent'[<<s, "video">>]) = Len(sent[<<s, "video">>]),
         muxed'[s] > 0, Len(encoded'[<<s, "video">>]) = Len(sent[<<s, "video">>])
  PROVE  Job!Next
<1> DEFINE phases == [o \in Sessions |-> Phase(o)]
           captured == [o \in Sessions |-> Len(sent[<<o, "video">>])]
           clip == [o \in Sessions |-> IF muxed[o] > 0 THEN Len(encoded[<<o, "video">>]) ELSE 0]
<1>1. captured' = captured
  BY DEF JobOf
<1>2. clip' = [clip EXCEPT ![s] = captured[s]]
  BY DEF JobOf
<1>3. phases' = [phases EXCEPT ![s] = "muxing"]
  BY DEF JobOf
<1>4. phases[s] = "ended"
  OBVIOUS
<1> QED BY <1>1, <1>2, <1>3, <1>4 DEF Job!Next, Job!Mux, Job!Advance

-----------------------------------------------------------------------------
\* What is known of a session when its video encoder has not been told to end.
LEMMA NotEndedYet ==
  ASSUME TypeOK, Closed, ResultInv, NEW s \in Sessions, ~is_end[<<s, "video">>]
  PROVE  muxed[s] = 0 /\ notified[s] = 0
<1>1. <<s, "video">> \in Encoders /\ "video" \in Tracks /\ muxed[s] \in Nat /\ notified[s] \in Nat
  BY DEF Encoders, Tracks, TypeOK, ResultOK
<1>2. ~BothEnded(s)
  BY <1>1 DEF Closed, BothEnded
<1> QED BY <1>1, <1>2 DEF ResultInv, Results

\* The session a global points at is being recorded.
LEMMA PointedIsRecording ==
  ASSUME TypeOK, PointerInv, Closed, ResultInv, encoder["video"] # Null
  PROVE  /\ cur \in Sessions /\ encoder["video"] = cur
         /\ ~is_end[<<cur, "video">>] /\ ~is_release[<<cur, "video">>]
         /\ muxed[cur] = 0 /\ notified[cur] = 0 /\ Phase(cur) = "recording"
<1>1. cur \in Sessions /\ encoder["video"] = cur
  BY DEF PointerInv, PointersLatest, TypeOK, SessionOK, Tracks, Pointers
<1>2. ~is_end[<<cur, "video">>] /\ ~is_release[<<cur, "video">>]
  BY <1>1 DEF PointerInv, PointedFlags, Tracks
<1>3. muxed[cur] = 0 /\ notified[cur] = 0
  BY <1>1, <1>2, NotEndedYet
<1>4. cur <= cur
  BY <1>1 DEF Sessions
<1> QED BY <1>1, <1>2, <1>3, <1>4 DEF Phase

\* The phase of a session follows its flags, its results and whether it began.
LEMMA SamePhase ==
  ASSUME NEW s \in Sessions, cur' = cur, muxed'[s] = muxed[s], notified'[s] = notified[s],
         is_end'[<<s, "video">>] = is_end[<<s, "video">>],
         is_release'[<<s, "video">>] = is_release[<<s, "video">>]
  PROVE  Phase(s)' = Phase(s)
  BY DEF Phase

\* A step that leaves these alone shows nothing of any session.
LEMMA SameJob ==
  ASSUME UNCHANGED <<cur, sent, encoded, muxed, notified>>,
         \A s \in Sessions : /\ is_end'[<<s, "video">>] = is_end[<<s, "video">>]
                             /\ is_release'[<<s, "video">>] = is_release[<<s, "video">>]
  PROVE  \A s \in Sessions : JobOf(s)' = JobOf(s)
  BY SamePhase DEF JobOf

\* The encoder threads: a pop is hidden, the first start of the muxer makes the
\* clip, and the first report is the job's.
LEMMA JobEncoderStep ==
  ASSUME TypeOK, PointerInv, Closed, ResultInv, VideoFullyEncoded, NEW e \in Encoders,
         EncoderStep(e)
  PROVE  Job!Next \/ UNCHANGED Job!vars
<1> DEFINE s == e[1]
           v == <<s, "video">>
<1>0. /\ s \in Sessions /\ v \in Encoders /\ muxed[s] \in Nat /\ notified[s] \in Nat
      /\ fault = NoFault
  BY DEF Encoders, Tracks, TypeOK, ResultOK, EncoderStep, TestEnd, TestDrained, TestRelease,
     TakeFrame, FlushAndClose, SetState, TryEncodeOver, Mux, Notify, FreeHandler, DeleteEncoder
<1>1. UNCHANGED <<cur, is_end, is_release>>
  BY EncoderLeaves
<1>2. CASE UNCHANGED <<sent, encoded, muxed, notified>>
  BY <1>0, <1>1, <1>2, SameJob, JobStutters, JobStops
<1>3. CASE TakeFrame(e)
  <2>1. /\ UNCHANGED <<sent, muxed, notified, fault>>
        /\ pc[e] = "take"
        /\ \A g \in Encoders : g # e => encoded'[g] = encoded[g]
    BY <1>3 DEF TakeFrame, GoTo, queueVars, resultVars, TypeOK, QueueOK
  <2>2. ASSUME NEW o \in Sessions, muxed[o] > 0 PROVE encoded'[<<o, "video">>] = encoded[<<o, "video">>]
    <3>1. <<o, "video">> \in Encoders /\ state[<<o, "video">>]
      BY <2>2 DEF ResultInv, Results, BothEnded, Encoders, Tracks
    <3>2. <<o, "video">> # e
      BY <2>1, <3>1 DEF Closed, AfterCheck
    <3> QED BY <2>1, <3>1, <3>2
  <2>3. \A o \in Sessions : JobOf(o)' = JobOf(o)
    BY <1>1, <2>1, <2>2, SamePhase DEF JobOf
  <2> QED BY <2>1, <2>3, JobStutters
<1>4. CASE TryEncodeOver(e)
  <2>1. CASE muxed' = muxed
    BY <1>2, <1>4, <2>1 DEF TryEncodeOver, queueVars
  <2>2. CASE muxed' # muxed
    <3>1. /\ BothEnded(s) /\ muxed' = [muxed EXCEPT ![s] = @ + 1]
          /\ UNCHANGED <<sent, encoded, notified, fault>>
      BY <1>4, <2>2 DEF TryEncodeOver, queueVars
    <3>2. \A o \in Sessions : o # s => JobOf(o)' = JobOf(o)
      BY <1>1, <3>1, SamePhase DEF JobOf, TypeOK, ResultOK
    <3>3. muxed'[s] = muxed[s] + 1
      BY <1>0, <3>1 DEF TypeOK, ResultOK
    <3>4. is_end[v] /\ pc[v] \in AfterLoop
      BY <1>0, <3>1 DEF BothEnded, Closed, Tracks, AfterCheck, AfterLoop
    <3>5. encoded[v] = sent[v]
      BY <1>0, <3>4 DEF VideoFullyEncoded
    <3>6. CASE muxed[s] > 0
      <4>1. Phase(s)' = Phase(s)
        BY <1>0, <1>1, <3>1, <3>3, <3>6 DEF Phase
      <4>2. JobOf(s)' = JobOf(s)
        BY <1>0, <3>1, <3>3, <3>6, <4>1 DEF JobOf
      <4> QED BY <3>1, <3>2, <4>2, JobStutters
    <3>7. CASE ~(muxed[s] > 0)
      <4>1. muxed[s] = 0 /\ notified[s] = 0 /\ muxed'[s] > 0
        BY <1>0, <3>3, <3>7 DEF ResultInv, Results
      <4>2. Phase(s) = "ended" /\ Phase(s)' = "muxing"
        BY <1>0, <1>1, <3>1, <3>4, <4>1 DEF Phase
      <4> QED BY <1>0, <3>1, <3>2, <3>5, <4>1, <4>2, JobMuxes
    <3> QED BY <3>6, <3>7
  <2> QED BY <2>1, <2>2
<1>5. CASE Notify(e)
  <2>1. CASE notified' = notified
    BY <1>2, <1>5, <2>1 DEF Notify, queueVars
  <2>2. CASE notified' # notified
    <3>1. /\ notified' = [notified EXCEPT ![s] = @ + 1] /\ pc[e] = "notify"
          /\ UNCHANGED <<sent, encoded, muxed, fault>>
      BY <1>5, <2>2 DEF Notify, queueVars
    <3>2. \A o \in Sessions : o # s => JobOf(o)' = JobOf(o)
      BY <1>1, <3>1, SamePhase DEF JobOf, TypeOK, ResultOK
    <3>3. notified'[s] = notified[s] + 1 /\ muxed[s] > 0
      BY <1>0, <3>1 DEF TypeOK, ResultOK, ResultInv, Announced, MuxerPcs
    <3>4. CASE notified[s] > 0
      <4>1. Phase(s)' = Phase(s)
        BY <1>0, <3>3, <3>4 DEF Phase
      <4>2. JobOf(s)' = JobOf(s)
        BY <3>1, <4>1 DEF JobOf
      <4> QED BY <3>1, <3>2, <4>2, JobStutters
    <3>5. CASE ~(notified[s] > 0)
      <4>1. notified[s] = 0 /\ notified'[s] > 0
        BY <1>0, <3>3, <3>5
      <4>2. Phase(s) = "muxing" /\ Phase(s)' = "reported"
        BY <3>3, <4>1 DEF Phase
      <4> QED BY <1>0, <3>1, <3>2, <4>2, JobAdvances
    <3> QED BY <3>4, <3>5
  <2> QED BY <2>1, <2>2
<1>6. CASE ~TakeFrame(e) /\ ~TryEncodeOver(e) /\ ~Notify(e)
  BY <1>2, <1>6 DEF EncoderStep, TestEnd, TestDrained, TestRelease, FlushAndClose, SetState, Mux,
     FreeHandler, DeleteEncoder, queueVars, resultVars
<1> QED BY <1>3, <1>4, <1>5, <1>6

\* The calls: recordEnd and nativeRelease end and give up what is recorded.
LEMMA JobMainStep ==
  ASSUME TypeOK, PointerInv, Closed, ResultInv, FreshVideo, MainStep
  PROVE  Job!Next \/ UNCHANGED Job!vars
<1>0. /\ \A s \in Sessions : <<s, "video">> \in Encoders
      /\ UNCHANGED <<cur, sent, encoded, muxed, notified, fault>> /\ fault = NoFault
  BY DEF Encoders, Tracks, MainStep, InitVideoEncoder, InitAudioEncoder, InitEncoder, FinishStart,
     EndVideo, EndAudio, NullAudio, ReleaseVideo, ReleaseFlag, InterruptAudio, sessionVars, queueVars,
     resultVars
<1>1. CASE \A s \in Sessions : /\ is_end'[<<s, "video">>] = is_end[<<s, "video">>]
                               /\ is_release'[<<s, "video">>] = is_release[<<s, "video">>]
  BY <1>0, <1>1, SameJob, JobStutters
<1>2. CASE InitVideoEncoder
  <2>1. /\ is_release' = is_release /\ ~is_end[<<cur, "video">>] /\ <<cur, "video">> \in Encoders
        /\ is_end' = is_end \/ is_end' = [is_end EXCEPT ![<<cur, "video">>] = FALSE]
    BY <1>2 DEF InitVideoEncoder, InitEncoder, FreshVideo, PointerInv, InitPcs, Encoders, Tracks
  <2>2. is_end' = is_end
    BY <2>1 DEF TypeOK, SessionOK
  <2> QED BY <1>1, <2>1, <2>2
<1>3. CASE InitAudioEncoder
  <2>1. /\ is_release' = is_release
        /\ is_end' = is_end \/ is_end' = [is_end EXCEPT ![<<cur, "audio">>] = FALSE]
    BY <1>3 DEF InitAudioEncoder, InitEncoder
  <2> QED BY <1>0, <1>1, <2>1 DEF TypeOK, SessionOK
<1>4. CASE EndAudio
  <2>1. /\ is_release' = is_release
        /\ is_end' = is_end \/ is_end' = [is_end EXCEPT ![<<encoder["audio"], "audio">>] = TRUE]
    BY <1>4 DEF EndAudio, Ended
  <2> QED BY <1>0, <1>1, <2>1 DEF TypeOK, SessionOK
<1>5. CASE EndVideo \/ ReleaseVideo
  <2>1. CASE encoder["video"] = Null
    BY <1>1, <1>5, <2>1 DEF EndVideo, ReleaseVideo
  <2>2. CASE encoder["video"] # Null
    <3> DEFINE v == <<cur, "video">>
    <3>1. /\ cur \in Sessions /\ encoder["video"] = cur /\ v \in Encoders
          /\ ~is_end[v] /\ ~is_release[v]
          /\ muxed[cur] = 0 /\ notified[cur] = 0 /\ Phase(cur) = "recording"
      BY <1>0, <2>2, PointedIsRecording
    <3>2. \/ is_end' = [is_end EXCEPT ![v] = TRUE] /\ is_release' = is_release
          \/ is_end' = is_end /\ is_release' = [is_release EXCEPT ![v] = TRUE]
      BY <1>5, <2>2, <3>1 DEF EndVideo, ReleaseVideo, Ended, Released
    <3>3. \A o \in Sessions : o # cur => JobOf(o)' = JobOf(o)
      BY <1>0, <3>2, SamePhase DEF JobOf, TypeOK, SessionOK
    <3>4. Phase(cur)' \in {"ended", "given_up"}
      BY <1>0, <3>1, <3>2 DEF Phase, TypeOK, SessionOK
    <3> QED BY <1>0, <3>1, <3>3, <3>4, JobAdvances
  <2> QED BY <2>1, <2>2
<1>6. CASE FinishStart \/ NullAudio("null_audio", "idle") \/ ReleaseFlag \/ InterruptAudio
           \/ NullAudio("release_audio", "release_video")
  BY <1>1, <1>6 DEF FinishStart, NullAudio, ReleaseFlag, InterruptAudio, flagVars
<1> QED BY <1>2, <1>3, <1>4, <1>5, <1>6 DEF MainStep

\* The user and the camera: a recording starts, and only the one that records
\* gets frames.
LEMMA JobUserStep ==
  ASSUME TypeOK, PointerInv, Closed, ResultInv, UserStep
  PROVE  Job!Next \/ UNCHANGED Job!vars
<1>0. \A s \in Sessions : <<s, "video">> \in Encoders
  BY DEF Encoders, Tracks
<1>1. ASSUME NEW r \in Recorders, StartRecord(r) PROVE Job!Next
  <2>1. /\ cur' = cur + 1 /\ cur < MaxSessions /\ fault = NoFault
        /\ UNCHANGED <<is_end, is_release, sent, encoded, muxed, notified, fault>>
    BY <1>1 DEF StartRecord, flagVars, queueVars, resultVars
  <2>2. PICK n \in Sessions : n = cur + 1 /\ cur \in Nat /\ n \in Nat
    BY <2>1, SizesAssumption DEF TypeOK, SessionOK, Sessions
  <2>3. ~is_end[<<n, "video">>] /\ ~is_release[<<n, "video">>]
    <3>1. n > cur
      BY <2>2
    <3> QED BY <2>2, <3>1 DEF PointerInv, Unborn, Tracks
  <2>4. muxed[n] = 0 /\ notified[n] = 0
    BY <2>2, <2>3, NotEndedYet
  <2>5. ~(n <= cur) /\ n <= cur'
    BY <2>1, <2>2
  <2>6. Phase(n) = "none"
    BY <2>3, <2>4, <2>5 DEF Phase
  <2>7. Phase(n)' = "recording"
    BY <2>1, <2>3, <2>4, <2>5 DEF Phase
  <2>8. ASSUME NEW o \in Sessions, o # n PROVE JobOf(o)' = JobOf(o)
    <3>1. (o <= cur') <=> (o <= cur)
      BY <2>1, <2>2, <2>8 DEF Sessions
    <3>2. Phase(o)' = Phase(o)
      BY <2>1, <3>1 DEF Phase
    <3> QED BY <2>1, <3>2 DEF JobOf
  <2> QED BY <2>1, <2>2, <2>6, <2>7, <2>8, JobAdvances
<1>2. ASSUME NEW r \in Recorders, PreviewFrame(r) PROVE Job!Next \/ UNCHANGED Job!vars
  <2>1. UNCHANGED <<cur, is_end, is_release, muxed, notified>> /\ fault = NoFault
    BY <1>2 DEF PreviewFrame, sessionVars, flagVars, resultVars
  <2>2. CASE UNCHANGED queueVars
    <3>1. UNCHANGED <<sent, encoded>>
      BY <2>2 DEF queueVars
    <3> QED BY <2>1, <3>1, SameJob, JobStutters, JobStops
  <2>3. CASE ~ UNCHANGED queueVars
    <3> DEFINE v == <<cur, "video">>
    <3>1. /\ encoder["video"] # Null /\ fault' = fault
          /\ \E f \in Frames : Push(<<encoder["video"], "video">>, f)
      BY <1>2, <2>3, PreviewPushes DEF PreviewFrame
    <3>2. /\ cur \in Sessions /\ encoder["video"] = cur /\ muxed[cur] = 0
          /\ Phase(cur) = "recording"
      BY <3>1, PointedIsRecording
    <3>3. PICK f \in Frames : sent' = [sent EXCEPT ![v] = Append(@, f)] /\ encoded' = encoded
      BY <3>1, <3>2 DEF Push
    <3>4. v \in Encoders /\ sent[v] \in Seq(Frames)
      BY <1>0, <3>2 DEF TypeOK, QueueOK
    <3>5. sent'[v] = Append(sent[v], f)
      BY <3>3, <3>4 DEF TypeOK, QueueOK
    <3>6. Len(Append(sent[v], f)) = Len(sent[v]) + 1
      BY <3>4, AppendProperties
    <3>7. ASSUME NEW o \in Sessions, o # cur PROVE JobOf(o)' = JobOf(o)
      <4>1. Phase(o)' = Phase(o)
        BY <2>1, SamePhase
      <4>2. sent'[<<o, "video">>] = sent[<<o, "video">>]
        BY <1>0, <3>3, <3>7 DEF TypeOK, QueueOK
      <4> QED BY <2>1, <3>3, <4>1, <4>2 DEF JobOf
    <3>8. Phase(cur)' = Phase(cur)
      BY <2>1, <3>2, SamePhase
    <3>9. Len(sent'[v]) = Len(sent[v]) + 1
      BY <3>5, <3>6
    <3>10. muxed' = muxed /\ encoded' = encoded
      BY <2>1, <3>3
    <3> QED BY <2>1, <3>1, <3>2, <3>7, <3>8, <3>9, <3>10, JobCaptures
  <2> QED BY <2>2, <2>3
<1>3. ASSUME NEW r \in Recorders, StopRecord(r) \/ Release(r) \/ ReopenScreen
      PROVE  UNCHANGED Job!vars
  <2>1. /\ UNCHANGED <<cur, is_end, sent, encoded, muxed, notified, fault>>
        /\ is_release' = is_release \/ is_release' = Released("audio")
    BY <1>3 DEF StopRecord, Release, ReopenScreen, sessionVars, flagVars, queueVars, resultVars
  <2>2. \A s \in Sessions : is_release'[<<s, "video">>] = is_release[<<s, "video">>]
    BY <1>0, <2>1 DEF Released, TypeOK, SessionOK
  <2> QED BY <2>1, <2>2, SameJob, JobStutters
<1> QED BY <1>1, <1>2, <1>3, SizesAssumption DEF UserStep, Recorders

\* The audio threads show nothing of the job, but for a wrong access.
LEMMA JobAudioStep ==
  ASSUME TypeOK, NEW r \in Recorders, CaptureAudio(r) \/ AudioStep(r)
  PROVE  Job!Next \/ UNCHANGED Job!vars
<1>1. UNCHANGED <<cur, is_end, is_release, muxed, notified>> /\ fault = NoFault
  BY DEF CaptureAudio, AudioStep, LoadEncoder, SendOneFrame, EndAudioThread, sessionVars,
     flagVars, resultVars
<1>2. CASE UNCHANGED queueVars
  <2>1. UNCHANGED <<sent, encoded>>
    BY <1>2 DEF queueVars
  <2> QED BY <1>1, <2>1, SameJob, JobStutters, JobStops
<1>3. CASE ~ UNCHANGED queueVars
  <2>1. SendOneFrame(r) /\ fault' = fault
    BY <1>3 DEF CaptureAudio, AudioStep, LoadEncoder, SendOneFrame, EndAudioThread
  <2>2. PICK f \in Frames : Push(<<audioEncoder[r], "audio">>, f)
    BY <1>3, <2>1, SendPushes
  <2>3. /\ encoded' = encoded
        /\ \A s \in Sessions : sent'[<<s, "video">>] = sent[<<s, "video">>]
    BY <2>2 DEF Push, TypeOK, QueueOK, Encoders, Tracks
  <2>4. \A s \in Sessions : JobOf(s)' = JobOf(s)
    BY <1>1, <2>3, SamePhase DEF JobOf
  <2> QED BY <2>1, <2>4, JobStutters
<1> QED BY <1>2, <1>3

\* A new session's video encoder is told to end only after it was opened.
LEMMA FreshVideoStep ==
  ASSUME TypeOK, PointerInv, FreshVideo, [Next]_vars
  PROVE  FreshVideo'
<1>1. CASE UNCHANGED <<mainPc, cur, is_end>>
  BY <1>1 DEF FreshVideo
<1>2. CASE mainPc' # "init_video"
  BY <1>2 DEF FreshVideo
<1>3. ASSUME NEW r \in Recorders, StartRecord(r) PROVE FreshVideo'
  <2>1. is_end' = is_end /\ cur' = cur + 1 /\ cur < MaxSessions
    BY <1>3 DEF StartRecord, flagVars
  <2>2. cur + 1 \in Sessions /\ cur + 1 > cur
    BY <2>1, SizesAssumption DEF TypeOK, SessionOK, Sessions
  <2>3. ~is_end[<<cur + 1, "video">>]
    BY <2>2 DEF PointerInv, Unborn, Tracks
  <2> QED BY <2>1, <2>3 DEF FreshVideo
<1>4. ASSUME NEW r \in Recorders, CaptureAudio(r) \/ AudioStep(r) PROVE FreshVideo'
  BY <1>1, <1>4, AudioLeaves
<1>5. ASSUME NEW e \in Encoders, EncoderStep(e) PROVE FreshVideo'
  BY <1>1, <1>5, EncoderLeaves
<1>6. CASE MainStep
  BY <1>2, <1>6 DEF MainStep, InitVideoEncoder, InitAudioEncoder, InitEncoder, FinishStart,
     EndVideo, EndAudio, NullAudio, ReleaseVideo, ReleaseFlag, InterruptAudio
<1>7. ASSUME UserStep, ~ \E r \in Recorders : StartRecord(r) PROVE FreshVideo'
  BY <1>1, <1>2, <1>7 DEF UserStep, ReopenScreen, PreviewFrame, StopRecord, Release, mainVars,
     sessionVars, flagVars
<1>8. CASE UNCHANGED vars
  BY <1>1, <1>8 DEF vars, mainVars, sessionVars, flagVars
<1> QED BY <1>3, <1>4, <1>5, <1>6, <1>7, <1>8 DEF Next

\* Nothing was captured before the first recording.
LEMMA JobInit == Init => Job!Init
<1> SUFFICES ASSUME Init PROVE Job!Init
  OBVIOUS
<1>1. ASSUME NEW s \in Sessions
      PROVE  /\ ~(notified[s] > 0) /\ ~(muxed[s] > 0) /\ ~(s <= cur)
             /\ ~is_end[<<s, "video">>] /\ ~is_release[<<s, "video">>]
             /\ sent[<<s, "video">>] = <<>>
  <2>1. <<s, "video">> \in Encoders /\ s \in Nat /\ s > 0 /\ cur = 0
    BY DEF Init, Sessions, Encoders, Tracks
  <2>2. notified[s] = 0 /\ muxed[s] = 0
    BY DEF Init
  <2>3. /\ ~is_end[<<s, "video">>] /\ ~is_release[<<s, "video">>]
        /\ sent[<<s, "video">>] = <<>>
    BY <2>1 DEF Init
  <2> QED BY <2>1, <2>2, <2>3
<1>2. \A s \in Sessions : Phase(s) = "none"
  BY <1>1 DEF Phase
<1>3. \A s \in Sessions : Len(sent[<<s, "video">>]) = 0
  BY <1>1, EmptySeq
<1>4. ~(fault # NoFault)
  BY DEF Init
<1> QED BY <1>1, <1>2, <1>3, <1>4 DEF Job!Init

\* Every step of the pipeline is a step of the jobs, or none, when empty() is
\* read as it is written: the safety half of ImplementsJob.
THEOREM StepsOfJob == ~RacyEmpty /\ Spec => Job!Init /\ [][Job!Next]_(Job!vars)
<1> SUFFICES ASSUME ~RacyEmpty PROVE Spec => Job!Init /\ [][Job!Next]_(Job!vars)
  OBVIOUS
<1>1. Init => FreshVideo
  BY DEF Init, FreshVideo
<1>2. TypeOK /\ PointerInv /\ FreshVideo /\ [Next]_vars => FreshVideo'
  BY FreshVideoStep
<1>3. TypeOK /\ PointerInv /\ Closed /\ ResultInv /\ VideoFullyEncoded /\ FreshVideo /\ [Next]_vars
        => [Job!Next]_(Job!vars)
  <2> SUFFICES ASSUME TypeOK, PointerInv, Closed, ResultInv, VideoFullyEncoded, FreshVideo,
                      [Next]_vars
               PROVE  Job!Next \/ UNCHANGED Job!vars
    OBVIOUS
  <2>1. CASE UNCHANGED vars
    BY <2>1, SameJob, JobStutters DEF vars, sessionVars, flagVars, queueVars, resultVars
  <2> QED BY <2>1, JobMainStep, JobUserStep, JobAudioStep, JobEncoderStep DEF Next
<1> QED BY TypeCorrect, PointersCorrect, ClosedHolds, ResultsCorrect, VideoFullyEncodedHolds,
           JobInit, <1>1, <1>2, <1>3, PTL DEF Spec

-----------------------------------------------------------------------------
(***************************************************************************)
(* How often a recording is muxed and reported.  A thread that has looked  *)
(* at both states counts once, wherever it is by now; what was muxed was   *)
(* reported, or a thread is on its way to report it.                       *)
(***************************************************************************)

One(condition) == IF condition THEN 1 ELSE 0

\* how many of a session's two threads are at one of these places
ThreadsAt(s, pcs) == One(pc[<<s, "video">>] \in pcs) + One(pc[<<s, "audio">>] \in pcs)

Reporting == {"mux", "notify"}

Counted ==
  \A s \in Sessions :
    /\ muxed[s] <= ThreadsAt(s, AfterCheck)
    /\ notified[s] + ThreadsAt(s, Reporting) <= muxed[s]
    /\ "attach" \notin Failures => muxed[s] = notified[s] + ThreadsAt(s, Reporting)

\* A thread that was told to end has announced it, unless its flush failed.
EndAnnounced ==
  "flush" \notin Failures =>
    \A e \in Encoders : pc[e] \in {"check"} \cup AfterCheck => state[e] \/ is_release[e]

\* The handler is deleted by a thread that has reported, and a thread that meets
\* the deleted handler belongs to a session that both threads had ended.
Freed ==
  /\ \A s \in Sessions : handler_freed[s] => notified[s] > 0
  /\ \A e \in Encoders : pc[e] = "free" => notified[e[1]] > 0
  /\ fault = "freed_handler" => \E s \in Sessions : handler_freed[s] /\ BothEnded(s)

CountInv == Counted /\ EndAnnounced /\ Freed

\* A recording that both threads were told to end, and have left, was reported as
\* often as it was muxed, and at least once.
LeftIsReported ==
  \A s \in Sessions :
    (\A t \in Tracks : is_end[<<s, t>>] /\ pc[<<s, t>>] = "exit") =>
      notified[s] > 0 /\ notified[s] = muxed[s]

\* The check for both ends can let both threads through, never a third time.
MuxedAtMostTwice == \A s \in Sessions : notified[s] <= muxed[s] /\ muxed[s] <= 2

\* A deleted handler is met only where the completion was reported before.
FreedWasReported ==
  fault = "freed_handler" => \E s \in Sessions : notified[s] > 0 /\ \A t \in Tracks : state[<<s, t>>]

\* A place in a session is taken or not.
LEMMA ThreadsAtType ==
  ASSUME NEW s, NEW pcs PROVE ThreadsAt(s, pcs) \in {0, 1, 2}
  BY DEF ThreadsAt, One

\* Before the first recording there is nothing to count.
LEMMA InitCountInv == Init => CountInv
<1> SUFFICES ASSUME Init PROVE CountInv
  OBVIOUS
<1>1. \A s \in Sessions : <<s, "video">> \in Encoders /\ <<s, "audio">> \in Encoders
  BY DEF Encoders, Tracks
<1>2. \A s \in Sessions : /\ muxed[s] = 0 /\ notified[s] = 0
                          /\ pc[<<s, "video">>] = "none" /\ pc[<<s, "audio">>] = "none"
  BY <1>1 DEF Init
<1>3. Counted
  <2> SUFFICES ASSUME NEW s \in Sessions
               PROVE  /\ muxed[s] <= ThreadsAt(s, AfterCheck)
                      /\ notified[s] + ThreadsAt(s, Reporting) <= muxed[s]
                      /\ muxed[s] = notified[s] + ThreadsAt(s, Reporting)
    BY DEF Counted
  <2>1. ThreadsAt(s, AfterCheck) = 0 /\ ThreadsAt(s, Reporting) = 0
    BY <1>2 DEF ThreadsAt, One, AfterCheck, Reporting
  <2>2. muxed[s] = 0 /\ notified[s] = 0
    BY <1>2
  <2> QED BY <2>1, <2>2
<1>4. EndAnnounced
  BY DEF Init, EndAnnounced, AfterCheck
<1>5. Freed
  BY DEF Init, Freed, NoFault
<1> QED BY <1>3, <1>4, <1>5 DEF CountInv

\* What a step of one thread may do to its session's results, when it is counted
\* where it goes.
CountStep(e) ==
  /\ \A s \in Sessions : s # e[1] => muxed'[s] = muxed[s] /\ notified'[s] = notified[s]
  /\ muxed'[e[1]] \in Nat /\ notified'[e[1]] \in Nat
  /\ muxed'[e[1]] + One(pc[e] \in AfterCheck) <= muxed[e[1]] + One(pc'[e] \in AfterCheck)
  /\ notified'[e[1]] + One(pc'[e] \in Reporting) + muxed[e[1]]
       <= notified[e[1]] + One(pc[e] \in Reporting) + muxed'[e[1]]
  /\ "attach" \notin Failures =>
       notified'[e[1]] + One(pc'[e] \in Reporting) + muxed[e[1]]
         = notified[e[1]] + One(pc[e] \in Reporting) + muxed'[e[1]]

\* One thread of a session moves and changes the session's results: the counts
\* follow if the thread is counted where it goes.
LEMMA CountedMove ==
  ASSUME TypeOK, Counted, NEW e \in Encoders,
         \A g \in Encoders : g # e => pc'[g] = pc[g], CountStep(e)
  PROVE  Counted'
<1>1. /\ e[1] \in Sessions /\ muxed[e[1]] \in Nat /\ notified[e[1]] \in Nat
      /\ e = <<e[1], "video">> \/ e = <<e[1], "audio">>
  BY DEF Encoders, Tracks, TypeOK, ResultOK
<1>2. \A s \in Sessions : /\ <<s, "video">> \in Encoders /\ <<s, "audio">> \in Encoders
                          /\ s # e[1] => <<s, "video">> # e /\ <<s, "audio">> # e
  BY DEF Encoders, Tracks
<1>3. ASSUME NEW pcs
      PROVE  /\ ThreadsAt(e[1], pcs) \in Nat /\ ThreadsAt(e[1], pcs)' \in Nat
             /\ One(pc[e] \in pcs) \in Nat /\ One(pc'[e] \in pcs) \in Nat
             /\ ThreadsAt(e[1], pcs)' + One(pc[e] \in pcs)
                  = ThreadsAt(e[1], pcs) + One(pc'[e] \in pcs)
  <2>1. CASE e = <<e[1], "video">>
    <3>1. pc'[<<e[1], "audio">>] = pc[<<e[1], "audio">>]
      BY <1>1, <1>2, <2>1
    <3> QED BY <2>1, <3>1 DEF ThreadsAt, One
  <2>2. CASE e = <<e[1], "audio">>
    <3>1. pc'[<<e[1], "video">>] = pc[<<e[1], "video">>]
      BY <1>1, <1>2, <2>2
    <3> QED BY <2>2, <3>1 DEF ThreadsAt, One
  <2> QED BY <1>1, <2>1, <2>2
<1>4. ASSUME NEW s \in Sessions, s # e[1]
      PROVE  /\ muxed'[s] <= ThreadsAt(s, AfterCheck)'
             /\ notified'[s] + ThreadsAt(s, Reporting)' <= muxed'[s]
             /\ "attach" \notin Failures => muxed'[s] = notified'[s] + ThreadsAt(s, Reporting)'
  <2>1. \A pcs : ThreadsAt(s, pcs)' = ThreadsAt(s, pcs)
    BY <1>2, <1>4 DEF ThreadsAt
  <2> QED BY <1>4, <2>1 DEF Counted, CountStep
<1>5. /\ muxed'[e[1]] <= ThreadsAt(e[1], AfterCheck)'
      /\ notified'[e[1]] + ThreadsAt(e[1], Reporting)' <= muxed'[e[1]]
      /\ "attach" \notin Failures => muxed'[e[1]] = notified'[e[1]] + ThreadsAt(e[1], Reporting)'
  <2>1. /\ muxed[e[1]] <= ThreadsAt(e[1], AfterCheck)
        /\ notified[e[1]] + ThreadsAt(e[1], Reporting) <= muxed[e[1]]
        /\ "attach" \notin Failures => muxed[e[1]] = notified[e[1]] + ThreadsAt(e[1], Reporting)
    BY <1>1 DEF Counted
  <2> DEFINE m == muxed[e[1]]  mm == muxed'[e[1]]
             n == notified[e[1]]  nn == notified'[e[1]]
             a == ThreadsAt(e[1], AfterCheck)  aa == ThreadsAt(e[1], AfterCheck)'
             r == ThreadsAt(e[1], Reporting)  rr == ThreadsAt(e[1], Reporting)'
             p == One(pc[e] \in AfterCheck)  pp == One(pc'[e] \in AfterCheck)
             q == One(pc[e] \in Reporting)  qq == One(pc'[e] \in Reporting)
             sure == "attach" \notin Failures
  <2>2. /\ m \in Nat /\ mm \in Nat /\ n \in Nat /\ nn \in Nat /\ a \in Nat /\ aa \in Nat
        /\ r \in Nat /\ rr \in Nat /\ p \in Nat /\ pp \in Nat /\ q \in Nat /\ qq \in Nat
        /\ aa + p = a + pp /\ rr + q = r + qq
    BY <1>1, <1>3 DEF CountStep
  <2>3. mm + p <= m + pp /\ nn + qq + m <= n + q + mm /\ (sure => nn + qq + m = n + q + mm)
    BY DEF CountStep
  <2>4. m <= a /\ n + r <= m /\ (sure => m = n + r)
    BY <2>1
  <2> HIDE DEF m, mm, n, nn, a, aa, r, rr, p, pp, q, qq, sure
  <2>5. mm <= aa /\ nn + rr <= mm /\ (sure => mm = nn + rr)
    BY <2>2, <2>3, <2>4
  <2> QED BY <2>5 DEF m, mm, n, nn, a, aa, r, rr, p, pp, q, qq, sure
<1> QED BY <1>4, <1>5 DEF Counted

\* What the steps of an encoder thread do to the counts.
LEMMA EncoderCounts ==
  ASSUME TypeOK, NEW e \in Encoders, EncoderStep(e)
  PROVE  CountStep(e)
<1> DEFINE s == e[1]
<1>1. s \in Sessions /\ muxed[s] \in Nat /\ notified[s] \in Nat
  BY DEF Encoders, TypeOK, ResultOK
<1>2. ASSUME muxed' = muxed, notified' = notified,
             pc[e] \in AfterCheck => pc'[e] \in AfterCheck,
             pc'[e] \in Reporting <=> pc[e] \in Reporting
      PROVE  CountStep(e)
  <2>1. One(pc[e] \in AfterCheck) <= One(pc'[e] \in AfterCheck)
    BY <1>2 DEF One
  <2>2. One(pc[e] \in Reporting) = One(pc'[e] \in Reporting)
    BY <1>2 DEF One
  <2>3. /\ One(pc[e] \in AfterCheck) \in Nat /\ One(pc'[e] \in AfterCheck) \in Nat
        /\ One(pc[e] \in Reporting) \in Nat
    BY DEF One
  <2> QED BY <1>1, <1>2, <2>1, <2>2, <2>3 DEF CountStep
<1>3. CASE TestEnd(e) \/ TestDrained(e) \/ TestRelease(e) \/ TakeFrame(e) \/ FlushAndClose(e)
           \/ SetState(e) \/ FreeHandler(e) \/ DeleteEncoder(e)
  <2>1. UNCHANGED <<muxed, notified>>
    BY <1>3 DEF TestEnd, TestDrained, TestRelease, TakeFrame, FlushAndClose, SetState,
       FreeHandler, DeleteEncoder, resultVars
  <2>2. \/ pc' = pc
        \/ /\ pc[e] \in {"loop", "drain", "body", "take", "end", "set_state"}
           /\ pc'[e] \in {"drain", "body", "end", "take", "exit", "loop", "set_state", "delete", "check"}
        \/ pc[e] \in {"free", "delete"} /\ pc'[e] \in {"delete", "exit"}
    BY <1>3 DEF TestEnd, TestDrained, TestRelease, TakeFrame, FlushAndClose, SetState,
       FreeHandler, DeleteEncoder, GoTo, AfterTestEnd, AfterTestRelease, TypeOK, ThreadOK
  <2>3. /\ pc[e] \in AfterCheck => pc'[e] \in AfterCheck
        /\ pc'[e] \in Reporting <=> pc[e] \in Reporting
    BY <2>2 DEF AfterCheck, Reporting
  <2> QED BY <1>2, <2>1, <2>3
<1>4. CASE TryEncodeOver(e)
  <2>1. notified' = notified
    BY <1>4 DEF TryEncodeOver
  <2>2. CASE muxed' = muxed /\ pc' = pc
    BY <1>2, <2>1, <2>2
  <2>3. CASE muxed' = muxed /\ pc' = [pc EXCEPT ![e] = "delete"] /\ pc[e] = "check"
    BY <1>2, <2>1, <2>3 DEF AfterCheck, Reporting, TypeOK, ThreadOK
  <2>4. CASE muxed' = [muxed EXCEPT ![s] = @ + 1] /\ pc' = [pc EXCEPT ![e] = "mux"] /\ pc[e] = "check"
    <3>1. /\ muxed'[s] = muxed[s] + 1 /\ \A o \in Sessions : o # s => muxed'[o] = muxed[o]
          /\ pc'[e] = "mux" /\ pc[e] = "check"
      BY <1>1, <2>4 DEF TypeOK, ResultOK, ThreadOK
    <3>2. /\ One(pc[e] \in AfterCheck) = 0 /\ One(pc'[e] \in AfterCheck) = 1
          /\ One(pc[e] \in Reporting) = 0 /\ One(pc'[e] \in Reporting) = 1
      BY <3>1 DEF One, AfterCheck, Reporting
    <3> QED BY <1>1, <2>1, <3>1, <3>2 DEF CountStep
  <2> QED BY <1>4, <2>2, <2>3, <2>4 DEF TryEncodeOver
<1>5. CASE Mux(e)
  BY <1>2, <1>5 DEF Mux, GoTo, AfterCheck, Reporting, TypeOK, ThreadOK
<1>6. CASE Notify(e)
  <2>1. muxed' = muxed
    BY <1>6 DEF Notify
  <2>2. CASE notified' = notified /\ pc' = pc
    BY <1>2, <2>1, <2>2
  <2>3. CASE notified' = [notified EXCEPT ![s] = @ + 1] /\ pc' = [pc EXCEPT ![e] = "free"] /\ pc[e] = "notify"
    <3>1. /\ notified'[s] = notified[s] + 1 /\ \A o \in Sessions : o # s => notified'[o] = notified[o]
          /\ pc'[e] = "free" /\ pc[e] = "notify"
      BY <1>1, <2>3 DEF TypeOK, ResultOK, ThreadOK
    <3>2. /\ One(pc[e] \in AfterCheck) = 1 /\ One(pc'[e] \in AfterCheck) = 1
          /\ One(pc[e] \in Reporting) = 1 /\ One(pc'[e] \in Reporting) = 0
      BY <3>1 DEF One, AfterCheck, Reporting
    <3> QED BY <1>1, <2>1, <3>1, <3>2 DEF CountStep
  <2>4. CASE /\ "attach" \in Failures /\ notified' = notified
             /\ pc' = [pc EXCEPT ![e] = "delete"] /\ pc[e] = "notify"
    <3>1. pc'[e] = "delete" /\ pc[e] = "notify"
      BY <2>4 DEF TypeOK, ThreadOK
    <3>2. /\ One(pc[e] \in AfterCheck) = 1 /\ One(pc'[e] \in AfterCheck) = 1
          /\ One(pc[e] \in Reporting) = 1 /\ One(pc'[e] \in Reporting) = 0
      BY <3>1 DEF One, AfterCheck, Reporting
    <3> QED BY <1>1, <2>1, <2>4, <3>2 DEF CountStep
  <2> QED BY <1>6, <2>2, <2>3, <2>4 DEF Notify, MayFail
<1> QED BY <1>3, <1>4, <1>5, <1>6 DEF EncoderStep

\* The encoder threads keep the counts.
LEMMA CountInvEncoder ==
  ASSUME TypeOK, PointerInv, Closed, ResultInv, CountInv, NEW e \in Encoders, EncoderStep(e)
  PROVE  CountInv'
<1>1. /\ UNCHANGED is_release
      /\ \A g \in Encoders : g # e => pc'[g] = pc[g] /\ state'[g] = state[g]
      /\ \A g \in Encoders : state[g] => state'[g]
  BY EncoderLeaves, EncoderCloses
<1>2. Counted'
  BY <1>1, EncoderCounts, CountedMove DEF CountInv
<1>3. EndAnnounced'
  <2> SUFFICES ASSUME "flush" \notin Failures, pc'[e] \in {"check"} \cup AfterCheck
               PROVE  state'[e] \/ is_release[e]
    BY <1>1 DEF CountInv, EndAnnounced
  <2>1. CASE pc[e] \in {"check"} \cup AfterCheck
    BY <1>1, <2>1 DEF CountInv, EndAnnounced
  <2>2. CASE SetState(e)
    BY <1>1, <2>2 DEF SetState, TypeOK, ResultOK, ThreadOK, AfterCheck
  <2>3. CASE TestRelease(e)
    BY <2>3 DEF TestRelease, AfterTestRelease, GoTo, TypeOK, ThreadOK, AfterCheck
  <2>4. CASE pc[e] \notin {"check"} \cup AfterCheck /\ ~SetState(e) /\ ~TestRelease(e)
    <3>1. TestEnd(e) \/ TestDrained(e) \/ TakeFrame(e) \/ FlushAndClose(e)
      BY <2>4 DEF EncoderStep, TryEncodeOver, Mux, Notify, FreeHandler, DeleteEncoder, GoTo, AfterCheck
    <3>2. pc'[e] \in {"drain", "body", "end", "loop", "set_state"}
      BY <3>1 DEF TestEnd, TestDrained, TakeFrame, FlushAndClose, GoTo, AfterTestEnd, MayFail,
         TypeOK, ThreadOK
    <3> QED BY <3>2 DEF AfterCheck
  <2> QED BY <2>1, <2>2, <2>3, <2>4
<1>4. Freed'
  <2>1. \A s \in Sessions : BothEnded(s) => BothEnded(s)'
    BY <1>1 DEF BothEnded, Encoders
  <2>2. \A s \in Sessions : notified[s] > 0 => notified'[s] > 0
    <3>1. CASE notified' = notified
      BY <3>1
    <3>2. CASE notified' = [notified EXCEPT ![e[1]] = @ + 1]
      BY <3>2 DEF TypeOK, ResultOK
    <3> QED BY <3>1, <3>2 DEF EncoderStep, TestEnd, TestDrained, TestRelease, TakeFrame, FlushAndClose,
            SetState, TryEncodeOver, Mux, Notify, FreeHandler, DeleteEncoder, resultVars
  <2>3. \A s \in Sessions : handler_freed'[s] =>
          handler_freed[s] \/ (s = e[1] /\ pc[e] = "free")
    BY DEF EncoderStep, TestEnd, TestDrained, TestRelease, TakeFrame, FlushAndClose,
       SetState, TryEncodeOver, Mux, Notify, FreeHandler, DeleteEncoder, handlerVars, TypeOK, ResultOK
  <2>4. \A s \in Sessions : handler_freed'[s] => notified'[s] > 0
    BY <2>2, <2>3 DEF CountInv, Freed
  <2>5. \A g \in Encoders : pc'[g] = "free" => notified'[g[1]] > 0
    <3> SUFFICES ASSUME pc'[e] = "free" PROVE notified'[e[1]] > 0
      BY <1>1, <2>2 DEF CountInv, Freed, Encoders
    <3>1. CASE pc[e] = "free"
      BY <2>2, <3>1 DEF CountInv, Freed, Encoders
    <3>2. CASE pc[e] # "free"
      <4>1. Notify(e) /\ notified' = [notified EXCEPT ![e[1]] = @ + 1]
        BY <3>2 DEF EncoderStep, TestEnd, TestDrained, TestRelease, TakeFrame, FlushAndClose,
           SetState, TryEncodeOver, Mux, Notify, FreeHandler, DeleteEncoder, GoTo, AfterTestEnd,
           AfterTestRelease, TypeOK, ThreadOK
      <4> QED BY <4>1 DEF TypeOK, ResultOK, Encoders
    <3> QED BY <3>1, <3>2
  <2>6. fault' = "freed_handler" => \E s \in Sessions : handler_freed'[s] /\ BothEnded(s)'
    <3> SUFFICES ASSUME fault' = "freed_handler"
                 PROVE  \E s \in Sessions : handler_freed'[s] /\ BothEnded(s)'
      OBVIOUS
    <3>1. fault = NoFault
      BY DEF EncoderStep, TestEnd, TestDrained, TestRelease, TakeFrame, FlushAndClose,
         SetState, TryEncodeOver, Mux, Notify, FreeHandler, DeleteEncoder
    <3>2. handler_freed[e[1]] /\ handler_freed' = handler_freed
      BY <3>1 DEF EncoderStep, TestEnd, TestDrained, TestRelease, TakeFrame, FlushAndClose,
         SetState, TryEncodeOver, Mux, Notify, FreeHandler, DeleteEncoder, handlerVars, NoFault
    <3>3. e[1] \in Sessions /\ notified[e[1]] > 0
      BY <3>2 DEF CountInv, Freed, Encoders
    <3>4. BothEnded(e[1])
      BY <3>3 DEF ResultInv, Results
    <3> QED BY <2>1, <3>2, <3>3, <3>4
  <2> QED BY <2>4, <2>5, <2>6 DEF Freed
<1> QED BY <1>2, <1>3, <1>4 DEF CountInv

\* No other step starts a muxer, reports, or moves a thread that has ended.
LEMMA CountInvAlone ==
  ASSUME CountInv, UNCHANGED <<muxed, notified, handler_freed, state>>,
         fault' = fault \/ fault' # "freed_handler",
         \A e \in Encoders : is_release[e] => is_release'[e],
         \A e \in Encoders : \/ pc'[e] = pc[e]
                             \/ {pc[e], pc'[e]} \cap ({"check"} \cup AfterCheck) = {}
  PROVE  CountInv'
<1>1. \A s \in Sessions : <<s, "video">> \in Encoders /\ <<s, "audio">> \in Encoders
  BY DEF Encoders, Tracks
<1>2. \A e \in Encoders : /\ pc'[e] \in AfterCheck <=> pc[e] \in AfterCheck
                          /\ pc'[e] \in Reporting <=> pc[e] \in Reporting
                          /\ pc'[e] = "check" <=> pc[e] = "check"
                          /\ pc'[e] = "free" <=> pc[e] = "free"
  BY DEF AfterCheck, Reporting
<1>3. \A s \in Sessions : /\ ThreadsAt(s, AfterCheck)' = ThreadsAt(s, AfterCheck)
                          /\ ThreadsAt(s, Reporting)' = ThreadsAt(s, Reporting)
  BY <1>1, <1>2 DEF ThreadsAt, One
<1>4. Counted'
  BY <1>3 DEF CountInv, Counted
<1>5. EndAnnounced'
  BY <1>2 DEF CountInv, EndAnnounced
<1>6. Freed'
  BY <1>2 DEF CountInv, Freed, BothEnded
<1> QED BY <1>4, <1>5, <1>6 DEF CountInv

\* The counts are kept by every step.
LEMMA CountInvStep ==
  ASSUME TypeOK, PointerInv, Closed, ResultInv, CountInv, [Next]_vars
  PROVE  CountInv'
<1>1. ASSUME NEW e \in Encoders, EncoderStep(e) PROVE CountInv'
  BY <1>1, CountInvEncoder
<1>2. CASE /\ UNCHANGED <<pc, muxed, notified, handler_freed, state>>
           /\ fault' = fault \/ fault' # "freed_handler"
           /\ \A e \in Encoders : is_release[e] => is_release'[e]
  BY <1>2, CountInvAlone
<1>3. ASSUME NEW t \in Tracks, NEW done, InitEncoder(t, done), pc[<<cur, t>>] = "new",
             cur \in Sessions
      PROVE  CountInv'
  <2>1. <<cur, t>> \in Encoders
    BY <1>3 DEF Encoders
  <2>2. \/ pc' = [pc EXCEPT ![<<cur, t>>] = "loop"]
        \/ pc' = [pc EXCEPT ![<<cur, t>>] = "failed"]
    BY <1>3 DEF InitEncoder
  <2>3. UNCHANGED <<muxed, notified, handler_freed, state, fault, is_release>>
    BY <1>3 DEF InitEncoder, handlerVars, resultVars
  <2>4. \A g \in Encoders : \/ pc'[g] = pc[g]
                            \/ {pc[g], pc'[g]} \cap ({"check"} \cup AfterCheck) = {}
    BY <1>3, <2>1, <2>2 DEF TypeOK, ThreadOK, AfterCheck
  <2> QED BY <2>3, <2>4, CountInvAlone
<1>4. CASE InitVideoEncoder \/ InitAudioEncoder
  BY <1>3, <1>4 DEF InitVideoEncoder, InitAudioEncoder, PointerInv, InitPcs, Tracks
<1>5. CASE MainStep
  <2>1. \A e \in Encoders : is_release[e] => is_release'[e]
    <3>1. is_release' = is_release \/ is_release' = Released("video")
      BY <1>5 DEF MainStep, InitVideoEncoder, InitAudioEncoder, InitEncoder, FinishStart, EndVideo,
         EndAudio, NullAudio, ReleaseVideo, ReleaseFlag, InterruptAudio, flagVars
    <3> QED BY <3>1 DEF Released, TypeOK, SessionOK
  <2> QED BY <1>2, <1>4, <1>5, <2>1 DEF MainStep, FinishStart, EndVideo, EndAudio, NullAudio,
          ReleaseVideo, ReleaseFlag, InterruptAudio, handlerVars, resultVars
<1>6. ASSUME NEW r \in Recorders, StartRecord(r) PROVE CountInv'
  <2>1. \A e \in Encoders : e[1] = cur + 1 => pc[e] = "none"
    BY <1>6 DEF PointerInv, Unborn, Encoders, TypeOK, SessionOK
  <2>2. UNCHANGED <<muxed, notified, handler_freed, state, fault, is_release>>
    BY <1>6 DEF StartRecord, handlerVars, resultVars, flagVars
  <2>3. \A e \in Encoders : pc'[e] = IF e[1] = cur + 1 THEN "new" ELSE pc[e]
    BY <1>6 DEF StartRecord
  <2>4. \A g \in Encoders : \/ pc'[g] = pc[g]
                            \/ {pc[g], pc'[g]} \cap ({"check"} \cup AfterCheck) = {}
    BY <2>1, <2>3 DEF AfterCheck
  <2> QED BY <2>2, <2>4, CountInvAlone
<1>7. ASSUME UserStep, ~ \E r \in Recorders : StartRecord(r) PROVE CountInv'
  <2>1. \A e \in Encoders : is_release[e] => is_release'[e]
    <3>1. is_release' = is_release \/ is_release' = Released("audio")
      BY <1>7 DEF UserStep, ReopenScreen, PreviewFrame, StopRecord, Release, flagVars
    <3> QED BY <3>1 DEF Released, TypeOK, SessionOK
  <2> QED BY <1>2, <1>7, <2>1 DEF UserStep, ReopenScreen, PreviewFrame, StopRecord, Release,
          handlerVars, resultVars
<1>8. ASSUME NEW r \in Recorders, CaptureAudio(r) \/ AudioStep(r) PROVE CountInv'
  BY <1>2, <1>8 DEF CaptureAudio, AudioStep, LoadEncoder, SendOneFrame, EndAudioThread,
     handlerVars, resultVars, flagVars
<1>9. CASE UNCHANGED vars
  BY <1>2, <1>9 DEF vars, handlerVars, resultVars, flagVars
<1> QED BY <1>1, <1>5, <1>6, <1>7, <1>8, <1>9 DEF Next

\* The counts hold in every reachable state.
LEMMA CountsCorrect == Spec => []CountInv
<1>1. TypeOK /\ PointerInv /\ Closed /\ ResultInv /\ CountInv /\ [Next]_vars => CountInv'
  BY CountInvStep
<1> QED BY InitCountInv, TypeCorrect, PointersCorrect, ClosedHolds, ResultsCorrect, <1>1, PTL DEF Spec

\* try_encode_over starts the muxer of a recording at most twice, and end_notify
\* reports no more often than that: MuxedOnce fails, and this is how far.
THEOREM MuxedAtMostTwiceHolds == Spec => []MuxedAtMostTwice
<1>1. TypeOK /\ CountInv => MuxedAtMostTwice
  <2> SUFFICES ASSUME TypeOK, CountInv, NEW s \in Sessions
               PROVE  notified[s] <= muxed[s] /\ muxed[s] <= 2
    BY DEF MuxedAtMostTwice
  <2>1. muxed[s] \in Nat /\ notified[s] \in Nat
    BY DEF TypeOK, ResultOK
  <2>2. ThreadsAt(s, AfterCheck) \in {0, 1, 2} /\ ThreadsAt(s, Reporting) \in {0, 1, 2}
    BY ThreadsAtType
  <2>3. muxed[s] <= ThreadsAt(s, AfterCheck) /\ notified[s] + ThreadsAt(s, Reporting) <= muxed[s]
    BY DEF CountInv, Counted
  <2> QED BY <2>1, <2>2, <2>3
<1> QED BY <1>1, TypeCorrect, CountsCorrect, PTL

\* Once both encoder threads of an ended recording are gone its completion was
\* reported, when no flush fails and every thread can be attached: the safety part
\* of EndedIsReported, whatever else fails and wherever the empty() test errs.
THEOREM LeftIsReportedHolds ==
  {"flush", "attach"} \cap Failures = {} /\ Spec => []LeftIsReported
<1> SUFFICES ASSUME "flush" \notin Failures, "attach" \notin Failures PROVE Spec => []LeftIsReported
  OBVIOUS
<1>1. TypeOK /\ PointerInv /\ ResultInv /\ CountInv => LeftIsReported
  <2> SUFFICES ASSUME TypeOK, PointerInv, ResultInv, CountInv, NEW s \in Sessions,
                      \A t \in Tracks : is_end[<<s, t>>] /\ pc[<<s, t>>] = "exit"
               PROVE  notified[s] > 0 /\ notified[s] = muxed[s]
    BY DEF LeftIsReported
  <2>1. muxed[s] \in Nat /\ notified[s] \in Nat
    BY DEF TypeOK, ResultOK
  <2>2. \A t \in Tracks : <<s, t>> \in Encoders /\ ~is_release[<<s, t>>] /\ pc[<<s, t>>] \in AfterCheck
    BY DEF PointerInv, OneCleanup, Encoders, AfterCheck
  <2>3. \A t \in Tracks : state[<<s, t>>] /\ pc[<<s, t>>] \in AfterCheck
    BY <2>2 DEF CountInv, EndAnnounced
  <2>4. muxed[s] > 0
    BY <2>3 DEF ResultInv, LastOneMuxes
  <2>5. ThreadsAt(s, Reporting) = 0
    BY DEF ThreadsAt, One, Reporting, Tracks
  <2>6. muxed[s] = notified[s] + ThreadsAt(s, Reporting)
    BY DEF CountInv, Counted
  <2> QED BY <2>1, <2>4, <2>5, <2>6
<1> QED BY <1>1, TypeCorrect, PointersCorrect, ResultsCorrect, CountsCorrect, PTL

\* A deleted handler is met (try_encode_over, end_notify after delete (this)) only
\* where both tracks were announced and the completion was reported.
THEOREM FreedWasReportedHolds == Spec => []FreedWasReported
<1>1. CountInv => FreedWasReported
  BY DEF CountInv, Freed, BothEnded, FreedWasReported
<1> QED BY <1>1, CountsCorrect, PTL

-----------------------------------------------------------------------------
(***************************************************************************)
(* A thread that was told to end, or to release, comes to its end.  That it *)
(* does is checked under the fairness of the threads (ToldThreadsExit); what *)
(* is proved here is that each of its own steps brings it nearer, and that  *)
(* nobody else takes it back, but for the audio thread's late buffer.       *)
(***************************************************************************)

\* Only the call that starts a recording sees its encoders before their threads,
\* and it has not told them anything.
Fresh ==
  \A e \in Encoders :
    /\ pc[e] = "none" => e[1] > cur
    /\ pc[e] = "new" =>
         /\ e[1] = cur /\ ~is_end[e] /\ ~is_release[e]
         /\ \/ mainPc = "init_video"
            \/ mainPc = "init_audio" /\ e[2] = "audio"

\* the turns of the loop that are left: one for each frame that waits, or the one
\* that a thread without a frame is in
Turns(e) == IF frame_queue[e] = <<>> THEN 1 ELSE Len(frame_queue[e])

\* the steps left to a thread that ends: four for each turn, then the end
StepsToEnd(e) ==
  CASE pc[e] = "loop" -> 4 * Len(frame_queue[e]) + 9
    [] pc[e] = "drain" -> 4 * Len(frame_queue[e]) + 8
    [] pc[e] = "body" -> 4 * Turns(e) + 7
    [] pc[e] = "take" -> 4 * Turns(e) + 6
    [] pc[e] = "end" -> 7
    [] pc[e] = "set_state" -> 6
    [] pc[e] = "check" -> 5
    [] pc[e] = "mux" -> 4
    [] pc[e] = "notify" -> 3
    [] pc[e] = "free" -> 2
    [] pc[e] = "delete" -> 1
    [] OTHER -> 0

\* the steps left to a thread that is released: it meets the flag in this turn of
\* its loop or in the next
StepsToRelease(e) ==
  CASE pc[e] = "take" -> 3
    [] pc[e] = "loop" -> 2
    [] pc[e] = "body" -> 1
    [] OTHER -> 0

StepsLeft(e) == IF is_end[e] THEN StepsToEnd(e) ELSE StepsToRelease(e)

IsTold(e) == is_end[e] \/ is_release[e]

\* A told thread with no step left is gone, or never ran.
ToldComeToEnd == \A e \in Encoders : IsTold(e) /\ StepsLeft(e) = 0 => pc[e] \in {"exit", "failed"}

\* Every step of a told thread lessens what it has left, unless it stops the
\* process; no other step adds to it, but an audio buffer that comes late; and what
\* was told is never taken back.
ToldAdvance ==
  \A e \in Encoders : IsTold(e) =>
    /\ EncoderStep(e) => StepsLeft(e)' < StepsLeft(e) \/ fault' # NoFault
    /\ StepsLeft(e)' > StepsLeft(e) => e[2] = "audio" /\ \E r \in Recorders : SendOneFrame(r)
    /\ (is_end[e] => is_end'[e]) /\ (is_release[e] => is_release'[e])

\* Once its muxer was started a recording's video frames are what they were.
ClipIsFinal ==
  \A s \in Sessions : muxed[s] > 0 =>
    sent'[<<s, "video">>] = sent[<<s, "video">>] /\ encoded'[<<s, "video">>] = encoded[<<s, "video">>]

\* Before the first recording no encoder exists.
LEMMA InitFresh == Init => Fresh
<1> SUFFICES ASSUME Init, NEW e \in Encoders
             PROVE  e[1] > cur /\ pc[e] = "none"
  BY DEF Fresh
<1>1. e[1] \in 1 .. MaxSessions /\ cur = 0
  BY DEF Init, Encoders, Sessions
<1>2. pc[e] = "none"
  BY DEF Init
<1> QED BY <1>1, <1>2, SizesAssumption

\* A recording's threads run before the call that started it returns.
LEMMA FreshStep ==
  ASSUME TypeOK, PointerInv, Fresh, [Next]_vars
  PROVE  Fresh'
<1>0. cur \in 0 .. MaxSessions /\ \A e \in Encoders : e[1] \in 1 .. MaxSessions /\ e[2] \in Tracks
                                                     /\ e = <<e[1], e[2]>>
  BY DEF TypeOK, SessionOK, Encoders, Sessions
<1>1. CASE /\ UNCHANGED <<pc, cur>>
           /\ \A e \in Encoders : pc[e] # "new" \/ UNCHANGED <<is_end, is_release, mainPc>>
  BY <1>1 DEF Fresh
<1>2. ASSUME NEW e \in Encoders, EncoderStep(e) PROVE Fresh'
  <2>1. UNCHANGED <<cur, is_end, is_release, mainPc>>
    BY <1>2, EncoderLeaves
  <2>2. \A g \in Encoders : pc'[g] \in {"none", "new"} => pc[g] = pc'[g]
    BY <1>2, EncoderMoves DEF TypeOK, ThreadOK
  <2> QED BY <2>1, <2>2 DEF Fresh
<1>3. ASSUME NEW r \in Recorders, CaptureAudio(r) \/ AudioStep(r) PROVE Fresh'
  BY <1>1, <1>3, AudioLeaves
<1>4. ASSUME NEW r \in Recorders, StartRecord(r) PROVE Fresh'
  <2>1. /\ UNCHANGED <<is_end, is_release>> /\ cur' = cur + 1 /\ mainPc' = "init_video"
        /\ mainPc = "idle"
        /\ \A e \in Encoders : pc'[e] = IF e[1] = cur + 1 THEN "new" ELSE pc[e]
    BY <1>4 DEF StartRecord, flagVars
  <2> SUFFICES ASSUME NEW e \in Encoders
               PROVE  /\ pc'[e] = "none" => e[1] > cur'
                      /\ pc'[e] = "new" => /\ e[1] = cur' /\ ~is_end'[e] /\ ~is_release'[e]
                                           /\ mainPc' = "init_video"
    BY DEF Fresh
  <2>2. pc[e] # "new"
    BY <2>1 DEF Fresh
  <2>3. e[1] = cur + 1 => ~is_end[e] /\ ~is_release[e]
    BY <1>0 DEF PointerInv, Unborn, Encoders
  <2> QED BY <1>0, <2>1, <2>2, <2>3 DEF Fresh
<1>5. CASE InitVideoEncoder
  <2> DEFINE v == <<cur, "video">>
  <2>1. /\ cur \in Sessions /\ v \in Encoders /\ pc[v] = "new" /\ pc[<<cur, "audio">>] = "new"
        /\ cur' = cur /\ is_release' = is_release /\ mainPc' = "init_audio"
        /\ pc' = [pc EXCEPT ![v] = "loop"] \/ pc' = [pc EXCEPT ![v] = "failed"]
        /\ is_end' = is_end \/ is_end' = [is_end EXCEPT ![v] = FALSE]
    BY <1>5 DEF InitVideoEncoder, InitEncoder, PointerInv, InitPcs, Encoders, Tracks, sessionVars
  <2> SUFFICES ASSUME NEW e \in Encoders
               PROVE  /\ pc'[e] = "none" => e[1] > cur
                      /\ pc'[e] = "new" => e[1] = cur /\ ~is_end'[e] /\ ~is_release[e] /\ e[2] = "audio"
    BY <2>1 DEF Fresh
  <2>2. CASE e = v
    BY <2>1, <2>2 DEF TypeOK, ThreadOK
  <2>3. CASE e # v
    <3>1. pc'[e] = pc[e] /\ is_end'[e] = is_end[e]
      BY <2>1, <2>3 DEF TypeOK, ThreadOK, SessionOK
    <3>2. e[1] = cur => e[2] = "audio"
      BY <1>0, <2>3 DEF Tracks
    <3> QED BY <3>1, <3>2 DEF Fresh
  <2> QED BY <2>2, <2>3
<1>6. CASE InitAudioEncoder
  <2> DEFINE a == <<cur, "audio">>
  <2>1. /\ a \in Encoders /\ mainPc = "init_audio" /\ cur' = cur
        /\ pc' = [pc EXCEPT ![a] = "loop"] \/ pc' = [pc EXCEPT ![a] = "failed"]
    BY <1>6 DEF InitAudioEncoder, InitEncoder, PointerInv, InitPcs, Encoders, Tracks, sessionVars
  <2> SUFFICES ASSUME NEW e \in Encoders
               PROVE  (pc'[e] = "none" => e[1] > cur) /\ pc'[e] # "new"
    BY <2>1 DEF Fresh
  <2>2. CASE e = a
    BY <2>1, <2>2 DEF TypeOK, ThreadOK
  <2>3. CASE e # a
    <3>1. pc'[e] = pc[e]
      BY <2>1, <2>3 DEF TypeOK, ThreadOK
    <3>2. pc[e] # "new"
      BY <1>0, <2>1, <2>3 DEF Fresh
    <3> QED BY <3>1, <3>2 DEF Fresh
  <2> QED BY <2>2, <2>3
<1>7. CASE MainStep /\ ~InitVideoEncoder /\ ~InitAudioEncoder
  <2>1. UNCHANGED <<pc, cur>> /\ mainPc \notin {"init_video", "init_audio"}
    BY <1>7 DEF MainStep, FinishStart, EndVideo, EndAudio, NullAudio, ReleaseVideo, ReleaseFlag,
       InterruptAudio, sessionVars
  <2>2. \A e \in Encoders : pc[e] # "new"
    BY <2>1 DEF Fresh
  <2> QED BY <1>1, <2>1, <2>2
<1>8. ASSUME UserStep, ~ \E r \in Recorders : StartRecord(r) PROVE Fresh'
  <2>1. UNCHANGED <<pc, cur>> /\ mainPc = "idle"
    BY <1>8 DEF UserStep, ReopenScreen, PreviewFrame, StopRecord, Release, sessionVars
  <2>2. \A e \in Encoders : pc[e] # "new"
    BY <2>1 DEF Fresh
  <2> QED BY <1>1, <2>1, <2>2
<1>9. CASE UNCHANGED vars
  BY <1>1, <1>9 DEF vars, mainVars, sessionVars, flagVars
<1> QED BY <1>2, <1>3, <1>4, <1>5, <1>6, <1>7, <1>8, <1>9 DEF Next

\* Fresh is an invariant.
LEMMA FreshInvariant == Spec => []Fresh
<1>1. TypeOK /\ PointerInv /\ Fresh /\ [Next]_vars => Fresh'
  BY FreshStep
<1> QED BY InitFresh, TypeCorrect, PointersCorrect, <1>1, PTL DEF Spec

\* Without the race empty() answers as the queue is.
LEMMA EmptyIsEmpty ==
  ASSUME ~RacyEmpty, NEW e \in Encoders, NEW empty \in EmptyAnswers(e)
  PROVE  empty <=> frame_queue[e] = <<>>
  BY DEF EmptyAnswers

\* What waits in a queue, and what is left of it after a pop.
LEMMA QueueLengths ==
  ASSUME TypeOK, NEW e \in Encoders
  PROVE  /\ Len(frame_queue[e]) \in Nat /\ Turns(e) \in Nat
         /\ frame_queue[e] = <<>> => Len(frame_queue[e]) = 0 /\ Turns(e) = 1
         /\ frame_queue[e] # <<>> =>
              /\ Len(frame_queue[e]) > 0 /\ Turns(e) = Len(frame_queue[e])
              /\ Len(Tail(frame_queue[e])) = Len(frame_queue[e]) - 1
<1>1. frame_queue[e] \in Seq(Frames)
  BY DEF TypeOK, QueueOK
<1>2. frame_queue[e] = <<>> => Len(frame_queue[e]) = 0
  OBVIOUS
<1>3. frame_queue[e] # <<>> => /\ Len(frame_queue[e]) > 0
                               /\ Len(Tail(frame_queue[e])) = Len(frame_queue[e]) - 1
  BY <1>1
<1>4. Len(frame_queue[e]) \in Nat
  BY <1>1
<1> QED BY <1>2, <1>3, <1>4 DEF Turns

\* What a thread has left is a number of steps.
LEMMA StepsLeftType ==
  ASSUME TypeOK, NEW e \in Encoders PROVE StepsLeft(e) \in Nat
<1>1. Len(frame_queue[e]) \in Nat /\ Turns(e) \in Nat
  BY QueueLengths
<1> HIDE DEF Turns
<1>2. StepsToEnd(e) \in Nat
  BY <1>1 DEF StepsToEnd
<1>3. StepsToRelease(e) \in Nat
  BY DEF StepsToRelease
<1> QED BY <1>2, <1>3 DEF StepsLeft

\* A released thread meets the flag.
LEMMA ReleasedAdvances ==
  ASSUME TypeOK, PointerInv, NEW e \in Encoders, EncoderStep(e), is_release[e], ~is_end[e]
  PROVE  StepsToRelease(e)' < StepsToRelease(e)
<1>1. pc[e] \notin EndedPcs
  BY DEF PointerInv, Told
<1>2. CASE TestEnd(e)
  BY <1>2 DEF TestEnd, GoTo, AfterTestEnd, StepsToRelease, TypeOK, ThreadOK
<1>3. CASE TestRelease(e)
  BY <1>3 DEF TestRelease, GoTo, AfterTestRelease, StepsToRelease, TypeOK, ThreadOK
<1>4. CASE TakeFrame(e)
  BY <1>4 DEF TakeFrame, GoTo, StepsToRelease, TypeOK, ThreadOK
<1>5. TestEnd(e) \/ TestRelease(e) \/ TakeFrame(e)
  BY <1>1 DEF EncoderStep, TestDrained, FlushAndClose, SetState, TryEncodeOver, Mux, Notify,
     FreeHandler, DeleteEncoder, GoTo, EndedPcs
<1> QED BY <1>2, <1>3, <1>4, <1>5

\* An ended thread works its queue off, and then ends.
LEMMA EndedAdvances ==
  ASSUME ~RacyEmpty, TypeOK, PointerInv, NEW e \in Encoders, EncoderStep(e), is_end[e]
  PROVE  \/ StepsToEnd(e)' < StepsToEnd(e)
         \/ fault' # NoFault /\ pc' = pc /\ UNCHANGED queueVars
<1> DEFINE n == Len(frame_queue[e])
           turns == Turns(e)
<1>1. /\ n \in Nat /\ turns \in Nat
      /\ frame_queue[e] = <<>> => n = 0 /\ turns = 1
      /\ frame_queue[e] # <<>> =>
           n > 0 /\ turns = n /\ Len(Tail(frame_queue[e])) = n - 1
  BY QueueLengths
<1>2. ~is_release[e]
  BY DEF PointerInv, OneCleanup
<1>3. CASE TakeFrame(e)
  <2>1. pc[e] = "take" /\ pc'[e] = "loop"
    BY <1>3 DEF TakeFrame, GoTo, TypeOK, ThreadOK
  <2>2. StepsToEnd(e) = 4 * turns + 6 /\ StepsToEnd(e)' = 4 * Len(frame_queue'[e]) + 9
    BY <2>1 DEF StepsToEnd
  <2>3. PICK empty \in EmptyAnswers(e) :
          IF empty THEN UNCHANGED queueVars ELSE frame_queue' = [frame_queue EXCEPT ![e] = Tail(@)]
    BY <1>3 DEF TakeFrame
  <2>4. frame_queue'[e] = IF frame_queue[e] = <<>> THEN <<>> ELSE Tail(frame_queue[e])
    BY <2>3, EmptyIsEmpty DEF queueVars, TypeOK, QueueOK
  <2>5. Len(frame_queue'[e]) = IF frame_queue[e] = <<>> THEN 0 ELSE n - 1
    BY <1>1, <2>4
  <2> HIDE DEF n, turns
  <2> QED BY <1>1, <2>2, <2>5
<1>4. CASE ~TakeFrame(e)
  <2>1. frame_queue' = frame_queue /\ UNCHANGED queueVars
    BY <1>4, NotTakeLeavesQueues DEF queueVars
  <2>2. Turns(e)' = turns /\ Len(frame_queue'[e]) = n
    BY <2>1 DEF Turns
  <2> HIDE DEF n, turns
  <2>3. CASE TestEnd(e)
    <3>1. pc[e] = "loop" /\ pc'[e] = "drain"
      BY <2>3 DEF TestEnd, GoTo, AfterTestEnd, TypeOK, ThreadOK
    <3>2. StepsToEnd(e) = 4 * n + 9 /\ StepsToEnd(e)' = 4 * n + 8
      BY <2>2, <3>1 DEF StepsToEnd, n
    <3> QED BY <1>1, <3>2
  <2>4. CASE TestDrained(e)
    <3>1. pc[e] = "drain" /\ pc'[e] = IF frame_queue[e] = <<>> THEN "end" ELSE "body"
      BY <2>4, EmptyIsEmpty DEF TestDrained, GoTo, TypeOK, ThreadOK
    <3>2. StepsToEnd(e) = 4 * n + 8
      BY <3>1 DEF StepsToEnd, n
    <3>3. StepsToEnd(e)' = IF frame_queue[e] = <<>> THEN 7 ELSE 4 * turns + 7
      BY <2>2, <3>1 DEF StepsToEnd
    <3> QED BY <1>1, <3>2, <3>3
  <2>5. CASE TestRelease(e)
    <3>1. pc[e] = "body" /\ pc'[e] = "take"
      BY <1>2, <2>5 DEF TestRelease, GoTo, AfterTestRelease, TypeOK, ThreadOK
    <3>2. StepsToEnd(e) = 4 * turns + 7 /\ StepsToEnd(e)' = 4 * turns + 6
      BY <2>2, <3>1 DEF StepsToEnd, turns
    <3> QED BY <1>1, <3>2
  <2>6. CASE ~TestEnd(e) /\ ~TestDrained(e) /\ ~TestRelease(e)
    <3>1. FlushAndClose(e) \/ SetState(e) \/ TryEncodeOver(e) \/ Mux(e) \/ Notify(e)
          \/ FreeHandler(e) \/ DeleteEncoder(e)
      BY <1>4, <2>6 DEF EncoderStep
    <3>2. \/ pc' = pc /\ fault' # NoFault
          \/ pc[e] = "end" /\ pc'[e] \in {"set_state", "delete"}
          \/ pc[e] = "set_state" /\ pc'[e] = "check"
          \/ pc[e] = "check" /\ pc'[e] \in {"mux", "delete"}
          \/ pc[e] = "mux" /\ pc'[e] = "notify"
          \/ pc[e] = "notify" /\ pc'[e] \in {"free", "delete"}
          \/ pc[e] = "free" /\ pc'[e] = "delete"
          \/ pc[e] = "delete" /\ pc'[e] = "exit"
      BY <3>1 DEF FlushAndClose, SetState, TryEncodeOver, Mux, Notify, FreeHandler, DeleteEncoder,
         GoTo, MayFail, NoFault, TypeOK, ThreadOK
    <3> QED BY <2>1, <3>2 DEF StepsToEnd
  <2> QED BY <2>3, <2>4, <2>5, <2>6
<1> QED BY <1>3, <1>4

\* The steps of an encoder thread, its own and its neighbours'.
LEMMA ToldEncoderStep ==
  ASSUME ~RacyEmpty, TypeOK, PointerInv, NEW e \in Encoders, IsTold(e), NEW g \in Encoders, EncoderStep(g)
  PROVE  /\ g = e => StepsLeft(e)' < StepsLeft(e) \/ fault' # NoFault
         /\ ~(StepsLeft(e)' > StepsLeft(e))
<1>1. UNCHANGED <<is_end, is_release>>
  BY EncoderLeaves
<1>2. StepsLeft(e) \in Nat
  BY StepsLeftType
<1>3. CASE g = e
  <2>1. CASE is_end[e]
    <3>1. StepsLeft(e) = StepsToEnd(e) /\ StepsLeft(e)' = StepsToEnd(e)'
      BY <1>1, <2>1 DEF StepsLeft
    <3>2. \/ StepsToEnd(e)' < StepsToEnd(e)
          \/ fault' # NoFault /\ pc' = pc /\ UNCHANGED queueVars
      BY <1>3, <2>1, EndedAdvances
    <3>3. pc' = pc /\ UNCHANGED queueVars => StepsToEnd(e)' = StepsToEnd(e)
      BY DEF StepsToEnd, Turns, queueVars
    <3>4. StepsToEnd(e)' \in Nat
      <4>1. frame_queue'[e] \in Seq(Frames)
        BY TypeOKEncoder DEF TypeOK, QueueOK
      <4>2. Len(frame_queue'[e]) \in Nat
        BY <4>1
      <4>3. Turns(e)' \in Nat
        BY <4>2 DEF Turns
      <4> HIDE DEF Turns
      <4> QED BY <4>2, <4>3 DEF StepsToEnd
    <3> QED BY <1>2, <1>3, <3>1, <3>2, <3>3, <3>4
  <2>2. CASE ~is_end[e]
    <3>1. StepsLeft(e) = StepsToRelease(e) /\ StepsLeft(e)' = StepsToRelease(e)'
      BY <1>1, <2>2 DEF StepsLeft
    <3>2. StepsToRelease(e)' < StepsToRelease(e)
      BY <1>3, <2>2, ReleasedAdvances DEF IsTold
    <3>3. StepsToRelease(e)' \in Nat
      BY DEF StepsToRelease
    <3> QED BY <1>2, <1>3, <3>1, <3>2, <3>3
  <2> QED BY <2>1, <2>2
<1>4. CASE g # e
  <2>1. pc'[e] = pc[e]
    BY <1>4, EncoderMoves DEF TypeOK, ThreadOK
  <2>2. frame_queue'[e] = frame_queue[e]
    BY <1>4, NotTakeLeavesQueues DEF queueVars, TakeFrame, TypeOK, QueueOK
  <2>3. StepsLeft(e)' = StepsLeft(e)
    BY <1>1, <2>1, <2>2 DEF StepsLeft, StepsToEnd, StepsToRelease, Turns
  <2> QED BY <1>2, <1>4, <2>3
<1> QED BY <1>3, <1>4

\* Nobody else moves a told thread or gives its encoder a frame, but the audio
\* thread, which looks at the global before it pushes.
LEMMA ToldLeftAlone ==
  ASSUME TypeOK, PointerInv, Fresh, NEW e \in Encoders, IsTold(e), [Next]_vars,
         ~ \E g \in Encoders : EncoderStep(g)
  PROVE  /\ pc'[e] = pc[e]
         /\ (is_end[e] => is_end'[e]) /\ (is_release[e] => is_release'[e])
         /\ \/ UNCHANGED <<frame_queue[e], sent[e], encoded[e]>>
            \/ e[2] = "audio" /\ \E r \in Recorders : SendOneFrame(r)
<1>0. e[1] \in Sessions /\ e[2] \in Tracks /\ e = <<e[1], e[2]>> /\ pc[e] # "new"
  BY DEF Encoders, Fresh, IsTold
<1>1. e[1] <= cur
  <2>1. e[1] \in Nat /\ cur \in Nat /\ ~(e[1] > cur)
    BY <1>0 DEF PointerInv, Unborn, IsTold, Sessions, TypeOK, SessionOK
  <2> QED BY <2>1
<1>2. CASE UNCHANGED <<pc, is_end, is_release, frame_queue, sent, encoded>>
  BY <1>2
<1>3. CASE MainStep
  <2>1. UNCHANGED <<frame_queue, sent, encoded>>
    BY <1>3, MainLeavesQueues DEF queueVars
  <2>2. ASSUME NEW t \in Tracks, NEW done, InitEncoder(t, done), pc[<<cur, t>>] = "new"
        PROVE  pc'[e] = pc[e] /\ is_end'[e] = is_end[e] /\ is_release'[e] = is_release[e]
    <3>1. <<cur, t>> # e
      BY <1>0, <2>2
    <3>2. /\ \/ pc' = [pc EXCEPT ![<<cur, t>>] = "loop"]
             \/ pc' = [pc EXCEPT ![<<cur, t>>] = "failed"]
          /\ is_end' = is_end \/ is_end' = [is_end EXCEPT ![<<cur, t>>] = FALSE]
          /\ is_release' = is_release
      BY <2>2 DEF InitEncoder
    <3> QED BY <3>1, <3>2 DEF TypeOK, ThreadOK, SessionOK
  <2>3. CASE InitVideoEncoder \/ InitAudioEncoder
    BY <2>1, <2>2, <2>3 DEF InitVideoEncoder, InitAudioEncoder, PointerInv, InitPcs, Tracks
  <2>4. CASE ~InitVideoEncoder /\ ~InitAudioEncoder
    <3>1. /\ pc' = pc
          /\ is_end' = is_end \/ is_end' = Ended("video") \/ is_end' = Ended("audio")
          /\ is_release' = is_release \/ is_release' = Released("video")
      BY <1>3, <2>4 DEF MainStep, FinishStart, EndVideo, EndAudio, NullAudio, ReleaseVideo,
         ReleaseFlag, InterruptAudio, flagVars
    <3>2. (is_end[e] => is_end'[e]) /\ (is_release[e] => is_release'[e])
      BY <3>1 DEF Ended, Released, TypeOK, SessionOK
    <3> QED BY <2>1, <3>1, <3>2
  <2> QED BY <2>3, <2>4
<1>4. ASSUME NEW r \in Recorders, StartRecord(r)
      PROVE  /\ pc'[e] = pc[e]
             /\ UNCHANGED <<is_end, is_release, frame_queue, sent, encoded>>
  <2>1. pc'[e] = IF e[1] = cur + 1 THEN "new" ELSE pc[e]
    BY <1>4 DEF StartRecord
  <2>2. e[1] # cur + 1
    BY <1>0, <1>1 DEF Sessions, TypeOK, SessionOK
  <2> QED BY <1>4, <2>1, <2>2 DEF StartRecord, flagVars, queueVars
<1>5. ASSUME NEW r \in Recorders, PreviewFrame(r)
      PROVE  /\ UNCHANGED <<pc, is_end, is_release>>
             /\ UNCHANGED <<frame_queue[e], sent[e], encoded[e]>>
  <2>1. UNCHANGED <<pc, is_end, is_release>>
    BY <1>5 DEF PreviewFrame, flagVars
  <2>2. CASE UNCHANGED queueVars
    BY <2>1, <2>2 DEF queueVars
  <2>3. CASE ~ UNCHANGED queueVars
    <3> DEFINE v == <<encoder["video"], "video">>
    <3>1. /\ encoder["video"] # Null /\ v \in Encoders
          /\ \E f \in Frames : Push(v, f)
      BY <1>5, <2>3, PreviewPushes
    <3>2. ~is_end[v] /\ ~is_release[v]
      BY <3>1 DEF PointerInv, PointedFlags, Tracks
    <3>3. v # e
      BY <3>2 DEF IsTold
    <3> QED BY <2>1, <3>1, <3>3 DEF Push, TypeOK, QueueOK
  <2> QED BY <2>2, <2>3
<1>6. CASE UserStep
  <2>1. ASSUME NEW r \in Recorders, StopRecord(r) \/ Release(r) \/ ReopenScreen
        PROVE  /\ UNCHANGED <<pc, is_end, frame_queue, sent, encoded>>
               /\ is_release[e] => is_release'[e]
    <3>1. /\ UNCHANGED <<pc, is_end, frame_queue, sent, encoded>>
          /\ is_release' = is_release \/ is_release' = Released("audio")
      BY <2>1 DEF StopRecord, Release, ReopenScreen, flagVars, queueVars
    <3> QED BY <3>1 DEF Released, TypeOK, SessionOK
  <2> QED BY <1>4, <1>5, <1>6, <2>1, SizesAssumption DEF UserStep, Recorders
<1>7. ASSUME NEW r \in Recorders, CaptureAudio(r) \/ AudioStep(r)
      PROVE  /\ UNCHANGED <<pc, is_end, is_release>>
             /\ \/ UNCHANGED <<frame_queue[e], sent[e], encoded[e]>>
                \/ e[2] = "audio" /\ SendOneFrame(r)
  <2>1. UNCHANGED <<pc, is_end, is_release>>
    BY <1>7, AudioLeaves
  <2>2. CASE UNCHANGED queueVars
    BY <2>1, <2>2 DEF queueVars
  <2>3. CASE ~ UNCHANGED queueVars
    <3>1. SendOneFrame(r)
      BY <1>7, <2>3 DEF CaptureAudio, AudioStep, LoadEncoder, EndAudioThread
    <3>2. \E f \in Frames : Push(<<audioEncoder[r], "audio">>, f)
      BY <2>3, <3>1, SendPushes
    <3>3. CASE e[2] = "audio"
      BY <2>1, <3>1, <3>3
    <3>4. CASE e[2] # "audio"
      <4>1. <<audioEncoder[r], "audio">> # e
        BY <3>4
      <4> QED BY <2>1, <3>2, <4>1 DEF Push, TypeOK, QueueOK
    <3> QED BY <3>3, <3>4
  <2> QED BY <2>2, <2>3
<1>8. CASE UNCHANGED vars
  BY <1>2, <1>8 DEF vars, flagVars, queueVars
<1> QED BY <1>3, <1>6, <1>7, <1>8 DEF Next

\* A told thread comes to its end: the safety part of ToldThreadsExit.
THEOREM ToldAdvanceHolds == ~RacyEmpty /\ Spec => [][ToldAdvance]_vars
<1> SUFFICES ASSUME ~RacyEmpty PROVE Spec => [][ToldAdvance]_vars
  OBVIOUS
<1>1. TypeOK /\ TypeOK' /\ PointerInv /\ Fresh /\ [Next]_vars => [ToldAdvance]_vars
  <2> SUFFICES ASSUME TypeOK, TypeOK', PointerInv, Fresh, [Next]_vars, NEW e \in Encoders, IsTold(e)
               PROVE  /\ EncoderStep(e) => StepsLeft(e)' < StepsLeft(e) \/ fault' # NoFault
                      /\ StepsLeft(e)' > StepsLeft(e) => e[2] = "audio" /\ \E r \in Recorders : SendOneFrame(r)
                      /\ (is_end[e] => is_end'[e]) /\ (is_release[e] => is_release'[e])
    BY DEF ToldAdvance
  <2>1. StepsLeft(e) \in Nat
    BY StepsLeftType
  <2>2. ASSUME NEW g \in Encoders, EncoderStep(g)
        PROVE  /\ g = e => StepsLeft(e)' < StepsLeft(e) \/ fault' # NoFault
               /\ ~(StepsLeft(e)' > StepsLeft(e))
               /\ UNCHANGED <<is_end, is_release>>
    BY <2>1, <2>2, ToldEncoderStep, EncoderLeaves
  <2>3. CASE ~ \E g \in Encoders : EncoderStep(g)
    <3>1. /\ pc'[e] = pc[e] /\ (is_end[e] => is_end'[e]) /\ (is_release[e] => is_release'[e])
          /\ \/ frame_queue'[e] = frame_queue[e]
             \/ e[2] = "audio" /\ \E r \in Recorders : SendOneFrame(r)
      BY <2>3, ToldLeftAlone
    <3>2. is_end'[e] = is_end[e]
      <4>1. PointerInv'
        BY PointerInvStep
      <4>2. is_release'[e] => ~is_end'[e]
        BY <4>1 DEF PointerInv, OneCleanup
      <4>3. is_end[e] \in BOOLEAN /\ is_end'[e] \in BOOLEAN
        BY DEF TypeOK, SessionOK
      <4> QED BY <3>1, <4>2, <4>3 DEF IsTold
    <3>3. frame_queue'[e] = frame_queue[e] => StepsLeft(e)' = StepsLeft(e)
      BY <3>1, <3>2 DEF StepsLeft, StepsToEnd, StepsToRelease, Turns
    <3> QED BY <2>1, <2>3, <3>1, <3>3
  <2> QED BY <2>2, <2>3
<1> QED BY <1>1, TypeCorrect, PointersCorrect, FreshInvariant, PTL DEF Spec

\* A told thread that has no step left is gone, or its encoder could not be opened:
\* it never stops half-way, and never waits for anybody.
THEOREM ToldComeToEndHolds == Spec => []ToldComeToEnd
<1>1. TypeOK /\ PointerInv /\ Fresh => ToldComeToEnd
  <2> SUFFICES ASSUME TypeOK, PointerInv, Fresh, NEW e \in Encoders, IsTold(e), StepsLeft(e) = 0,
                      pc[e] \notin {"exit", "failed"}
               PROVE  FALSE
    BY DEF ToldComeToEnd
  <2>1. pc[e] \notin {"none", "new"}
    BY DEF Fresh, IsTold, PointerInv, Unborn, Encoders
  <2>2. Len(frame_queue[e]) \in Nat /\ Turns(e) \in Nat
    BY QueueLengths
  <2>3. CASE is_end[e]
    <3>1. StepsToEnd(e) = 0
      BY <2>3 DEF StepsLeft
    <3> HIDE DEF Turns
    <3> QED BY <2>1, <2>2, <3>1 DEF StepsToEnd, TypeOK, ThreadOK, EncoderPcs
  <2>4. CASE ~is_end[e]
    <3>1. StepsToRelease(e) = 0 /\ pc[e] \notin EndedPcs
      BY <2>4 DEF StepsLeft, PointerInv, Told
    <3> QED BY <2>1, <3>1 DEF StepsToRelease, EndedPcs, TypeOK, ThreadOK, EncoderPcs
  <2> QED BY <2>3, <2>4
<1> QED BY <1>1, TypeCorrect, PointersCorrect, FreshInvariant, PTL

\* The muxer reads files that nobody writes any more: after it was started no frame
\* of the recording's video is captured or encoded, even if empty() errs.
THEOREM ClipIsFinalHolds == Spec => [][ClipIsFinal]_vars
<1>1. TypeOK /\ PointerInv /\ Closed /\ ResultInv /\ Fresh /\ [Next]_vars => [ClipIsFinal]_vars
  <2> SUFFICES ASSUME TypeOK, PointerInv, Closed, ResultInv, Fresh, [Next]_vars, NEW s \in Sessions,
                      muxed[s] > 0
               PROVE  /\ sent'[<<s, "video">>] = sent[<<s, "video">>]
                      /\ encoded'[<<s, "video">>] = encoded[<<s, "video">>]
    BY DEF ClipIsFinal
  <2> DEFINE v == <<s, "video">>
  <2>1. v \in Encoders /\ v[2] = "video" /\ state[v]
    BY DEF ResultInv, Results, BothEnded, Encoders, Tracks
  <2>2. is_end[v] /\ pc[v] # "take"
    BY <2>1 DEF Closed, AfterCheck
  <2>3. ASSUME NEW g \in Encoders, EncoderStep(g)
        PROVE  sent'[v] = sent[v] /\ encoded'[v] = encoded[v]
    <3>1. CASE TakeFrame(g)
      BY <2>1, <2>2, <3>1 DEF TakeFrame, GoTo, queueVars, TypeOK, QueueOK
    <3> QED BY <2>3, <3>1, NotTakeLeavesQueues DEF queueVars
  <2>4. CASE ~ \E g \in Encoders : EncoderStep(g)
    BY <2>1, <2>2, <2>4, ToldLeftAlone DEF IsTold
  <2> QED BY <2>3, <2>4
<1> QED BY <1>1, TypeCorrect, PointersCorrect, ClosedHolds, ResultsCorrect, FreshInvariant, PTL DEF Spec
=============================================================================
