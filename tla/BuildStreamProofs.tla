------------------------- MODULE BuildStreamProofs -------------------------
(***************************************************************************)
(* What the stream of a build or a pull says is true, for any number of    *)
(* build steps and status batches and any channel capacity, with the       *)
(* client going away at any point.                                         *)
(*                                                                         *)
(* The three properties are about the end of a request; StreamInv says     *)
(* what each actor may have done by every earlier step: nobody but the     *)
(* request's goroutine is at work from the result on, nothing has failed   *)
(* and no success is reported before it, and the status line agrees with   *)
(* what was written.                                                       *)
(***************************************************************************)
EXTENDS BuildStream, SequenceTheorems, TLAPS

\* The steps before the solver is started, and those after both it and the
\* translator have returned.
Early == {"begin", "prepare", "tag", "solve", "fetch", "report"}
Late == {"result", "cleanup", "respond", "done"}
Closing == {"cleanup", "respond", "done"}

\* Who works when.
ActorsInv ==
    /\ main \in Early => solver = "off" /\ trans = "off" /\ ~sErr /\ ~tErr
    /\ main \in Late => trans # "run" /\ solver \notin {"run", "send"}
    /\ dir = "made" => main \in {"tag", "solve", "wait", "result", "cleanup"}

\* Nothing is reported or given up before the result.
OpenInv == main \notin Closing => ~err /\ "success" \notin ToSet(out)

\* The status line is sent with the first message.
StatusInv ==
    /\ http = "none" => out = <<>> /\ main # "done"
    /\ http = "error" => out = <<>> /\ main = "done"

StreamInv == BTypeOK /\ ActorsInv /\ OpenInv /\ StatusInv /\ SuccessIsTrue /\ FailureIsLast

-----------------------------------------------------------------------------
(* Writing.                                                                *)

\* A concatenation ends as its second part does and holds what both hold.
LEMMA ConcatEnds ==
    ASSUME NEW S, NEW s \in Seq(S), NEW m \in Seq(S), m # <<>>
    PROVE  /\ s \o m \in Seq(S) /\ s \o m # <<>>
           /\ Last(s \o m) = Last(m)
           /\ ToSet(s \o m) = ToSet(s) \cup ToSet(m)
  <1>1. /\ s \o m \in Seq(S) /\ Len(s \o m) = Len(s) + Len(m)
        /\ Len(s) \in Nat /\ Len(m) \in Nat /\ Len(m) # 0
        /\ DOMAIN s = 1 .. Len(s) /\ DOMAIN m = 1 .. Len(m) /\ DOMAIN (s \o m) = 1 .. Len(s) + Len(m)
    BY ConcatProperties, LenProperties, EmptySeq
  <1>2. \A i \in 1 .. Len(s) + Len(m) :
            (s \o m)[i] = IF i <= Len(s) THEN s[i] ELSE m[i - Len(s)]
    BY ConcatProperties
  <1>3. Last(s \o m) = Last(m)
    BY <1>1, <1>2 DEF Last
  <1>4. ASSUME NEW x \in ToSet(s \o m) PROVE x \in ToSet(s) \cup ToSet(m)
    <2>1. PICK i \in 1 .. Len(s) + Len(m) : x = (s \o m)[i]
      BY <1>1, <1>4 DEF ToSet
    <2>2. CASE i <= Len(s)
      BY <2>1, <2>2, <1>1, <1>2 DEF ToSet
    <2>3. CASE ~(i <= Len(s))
      <3>1. i - Len(s) \in 1 .. Len(m) /\ x = m[i - Len(s)]
        BY <2>1, <2>3, <1>1, <1>2
      <3>2. QED
        BY <3>1, <1>1 DEF ToSet
    <2>4. QED
      BY <2>2, <2>3
  <1>5. ASSUME NEW x \in ToSet(s) PROVE x \in ToSet(s \o m)
    <2>1. PICK i \in 1 .. Len(s) : x = s[i]
      BY <1>1, <1>5 DEF ToSet
    <2>2. i \in 1 .. Len(s) + Len(m) /\ x = (s \o m)[i]
      BY <2>1, <1>1, <1>2
    <2>3. QED
      BY <2>2, <1>1 DEF ToSet
  <1>6. ASSUME NEW x \in ToSet(m) PROVE x \in ToSet(s \o m)
    <2>1. PICK i \in 1 .. Len(m) : x = m[i]
      BY <1>1, <1>6 DEF ToSet
    <2>2. Len(s) + i \in 1 .. Len(s) + Len(m) /\ x = (s \o m)[Len(s) + i]
      BY <2>1, <1>1, <1>2
    <2>3. QED
      BY <2>2, <1>1 DEF ToSet
  <1>7. QED
    BY <1>1, <1>3, <1>4, <1>5, <1>6, EmptySeq, LenProperties

\* The messages the handler itself writes.
LEMMA FixedMessages ==
    /\ <<>> \in Seq(Message) /\ "success" \notin ToSet(<<>>)
    /\ \A x \in Message : /\ <<x>> \in Seq(Message) /\ <<x>> # <<>>
                          /\ Last(<<x>>) = x /\ ToSet(<<x>>) = {x}
    /\ <<"progress", "success">> \in Seq(Message) /\ <<"progress", "success">> # <<>>
    /\ Last(<<"progress", "success">>) = "success"
  BY DEF ToSet, Last, Message

\* A translated batch never claims success (progress.go).
LEMMA LinesPlain ==
    ASSUME NEW b
    PROVE  Lines(b) \in Seq(Message) /\ "success" \notin ToSet(Lines(b))
  <1>1. PICK p \in {<<>>, <<"progress">>}, q \in {<<>>, <<"progress">>, <<"error">>} :
            Lines(b) = p \o q
    BY DEF Lines
  <1>2. /\ p \in Seq(Message) /\ "success" \notin ToSet(p)
        /\ q \in Seq(Message) /\ "success" \notin ToSet(q)
    BY FixedMessages DEF Message
  <1>3. CASE q = <<>>
    BY <1>1, <1>2, <1>3, ConcatEmptySeq
  <1>4. CASE q # <<>>
    BY <1>1, <1>2, <1>4, ConcatEnds
  <1>5. QED
    BY <1>3, <1>4

\* A write without a success line before the result.
LEMMA PlainWrite ==
    ASSUME BTypeOK, NEW m \in Seq(Message), Write(m), "success" \notin ToSet(m),
           "success" \notin ToSet(out), http # "error", http = "none" => out = <<>>
    PROVE  /\ out' \in Seq(Message) /\ http' \in {"none", "ok"}
           /\ "success" \notin ToSet(out') /\ (http' = "none" => out' = <<>>)
           /\ (m # <<>> => http' = "ok")
           /\ (m # <<>> /\ ~gone => out' # <<>> /\ Last(out') = Last(m))
  <1>1. CASE m = <<>>
    BY <1>1 DEF Write, BTypeOK
  <1>2. CASE m # <<>>
    <2>1. http' = "ok" /\ out' = IF gone THEN out ELSE out \o m
      BY <1>2 DEF Write, BTypeOK
    <2>2. out \in Seq(Message)
      BY DEF BTypeOK
    <2>3. QED
      BY <1>2, <2>1, <2>2, ConcatEnds
  <1>3. QED
    BY <1>1, <1>2

\* A write that ends with a success line.
LEMMA SuccessWrite ==
    ASSUME BTypeOK, NEW m \in Seq(Message), Write(m), m # <<>>, Last(m) = "success",
           "success" \notin ToSet(out), http # "error"
    PROVE  /\ out' \in Seq(Message) /\ http' = "ok"
           /\ ("success" \in ToSet(out') => Last(out') = "success")
  <1>1. http' = "ok" /\ out' = IF gone THEN out ELSE out \o m
    BY DEF Write, BTypeOK
  <1>2. out \in Seq(Message)
    BY DEF BTypeOK
  <1>3. QED
    BY <1>1, <1>2, ConcatEnds

-----------------------------------------------------------------------------
(* Steps.                                                                  *)

\* The constant parts of a step before the result: nothing is finished yet.
LEMMA StillOpen ==
    ASSUME StreamInv, main' \notin Closing, err' = err, main \notin Closing,
           BTypeOK', ActorsInv',
           "success" \notin ToSet(out'), http' # "error", http' = "none" => out' = <<>>
    PROVE  StreamInv'
  BY DEF StreamInv, OpenInv, StatusInv, SuccessIsTrue, FailureIsLast, Closing

\* The request's goroutine up to the result.
LEMMA EarlyStep ==
    ASSUME StreamInv, Reject \/ Accept \/ PullFetch \/ Prepare \/ ResolveTag \/ Solve
                      \/ TranslatorDone
    PROVE  StreamInv'
  <1>i. BTypeOK /\ ActorsInv /\ OpenInv /\ StatusInv /\ main \notin Closing
    BY DEF StreamInv, Reject, Accept, PullFetch, Prepare, ResolveTag, Solve, TranslatorDone, Closing
  <1>o. /\ out \in Seq(Message) /\ "success" \notin ToSet(out) /\ ~err
        /\ http # "error" /\ (http = "none" => out = <<>>)
    BY <1>i DEF BTypeOK, OpenInv, StatusInv, Closing
  <1>1. CASE Reject
    <2>1. BTypeOK' /\ ActorsInv'
      BY <1>1, <1>i DEF Reject, BTypeOK, ActorsInv, Early, Late, solveVars, transVars
    <2>2. QED
      BY <2>1, <1>1, <1>o
      DEF Reject, StreamInv, OpenInv, StatusInv, SuccessIsTrue, FailureIsLast, Closing
  <1>2. CASE Accept
    <2>1. /\ out' \in Seq(Message) /\ http' \in {"none", "ok"}
          /\ "success" \notin ToSet(out') /\ (http' = "none" => out' = <<>>)
      <3>1. CASE op = "pull"
        BY <1>2, <3>1, <1>i, <1>o, PlainWrite, FixedMessages DEF Accept, Message
      <3>2. CASE op # "pull"
        BY <1>2, <3>2, <1>i, <1>o DEF Accept, BTypeOK
      <3>3. QED
        BY <3>1, <3>2
    <2>2. BTypeOK' /\ ActorsInv'
      BY <1>2, <2>1, <1>i DEF Accept, BTypeOK, ActorsInv, Early, Late, solveVars, transVars
    <2>3. QED
      BY <1>2, <1>i, <2>1, <2>2, StillOpen DEF Accept, Closing
  <1>3. CASE PullFetch
    <2>1. BTypeOK' /\ ActorsInv'
      BY <1>3, <1>i DEF PullFetch, BTypeOK, ActorsInv, Early, Late, solveVars, transVars
    <2>2. QED
      BY <2>1, <1>3, <1>o
      DEF PullFetch, StreamInv, OpenInv, StatusInv, SuccessIsTrue, FailureIsLast, Closing
  <1>4. CASE Prepare \/ ResolveTag
    <2>1. /\ out' \in Seq(Message) /\ http' \in {"none", "ok"}
          /\ "success" \notin ToSet(out') /\ (http' = "none" => out' = <<>>)
      <3>1. CASE Write(<<"error">>)
        BY <3>1, <1>i, <1>o, PlainWrite, FixedMessages DEF Message
      <3>2. CASE UNCHANGED <<out, http>>
        BY <3>2, <1>i, <1>o DEF BTypeOK
      <3>3. QED
        BY <1>4, <3>1, <3>2 DEF Prepare, ResolveTag, FailBuild
    <2>2. BTypeOK' /\ ActorsInv'
      <3>1. /\ err' \in BOOLEAN /\ dir' \in {"none", "made", "kept"}
            /\ UNCHANGED <<op, solver, batch, chan, sent, trans, seen, tErr, sErr, gone>>
        BY <1>4, <1>o, <1>i DEF Prepare, ResolveTag, FailBuild, BTypeOK, solveVars, transVars
      <3>2. /\ main' \in {"respond", "tag", "cleanup", "solve"} /\ main \in Early
            /\ dir' = "made" => main' \in {"tag", "solve", "cleanup"}
        BY <1>4, <1>i DEF Prepare, ResolveTag, FailBuild, ActorsInv, Early
      <3>3. QED
        BY <2>1, <3>1, <3>2, <1>i DEF BTypeOK, ActorsInv, Early, Late
    <2>3. main' # "done" /\ (main' \notin Closing => err' = err)
      BY <1>4 DEF Prepare, ResolveTag, FailBuild, Closing
    <2>4. QED
      BY <1>o, <2>1, <2>2, <2>3
      DEF StreamInv, OpenInv, StatusInv, SuccessIsTrue, FailureIsLast
  <1>5. CASE Solve \/ TranslatorDone
    <2>1. BTypeOK' /\ ActorsInv'
      BY <1>5, <1>i
      DEF Solve, TranslatorDone, BTypeOK, ActorsInv, Early, Late, solveVars, transVars
    <2>2. QED
      BY <1>5, <1>i, <1>o, <2>1, StillOpen DEF Solve, TranslatorDone, Closing
  <1>6. QED
    BY <1>1, <1>2, <1>3, <1>4, <1>5

\* The result of a build or a pull (build.go:159-166, images.go).
LEMMA ResultStep ==
    ASSUME StreamInv, Result \/ PullReport
    PROVE  StreamInv'
  <1>i. BTypeOK /\ ActorsInv /\ OpenInv /\ StatusInv /\ main \notin Closing
    BY DEF StreamInv, Result, PullReport, Closing
  <1>o. /\ out \in Seq(Message) /\ "success" \notin ToSet(out) /\ ~err
        /\ http # "error" /\ (http = "none" => out = <<>>)
    BY <1>i DEF BTypeOK, OpenInv, StatusInv, Closing
  <1>1. /\ main' \in {"cleanup", "respond"} /\ main' # "done" /\ main' \in Closing
        /\ UNCHANGED <<op, dir, solver, batch, chan, sent, trans, seen, tErr, sErr, gone>>
    BY DEF Result, PullReport, Closing, solveVars, transVars
  <1>2. err' \in BOOLEAN
    <2>1. CASE PullReport
      BY <2>1, <1>i DEF PullReport, BTypeOK
    <2>2. CASE Result /\ (sErr \/ tErr)
      BY <2>2 DEF Result
    <2>3. CASE Result /\ ~(sErr \/ tErr)
      BY <2>3 DEF Result, EmitBuildResult, WriteOutcomes
    <2>4. QED
      BY <2>1, <2>2, <2>3
  <1>3. ActorsInv'
    BY <1>1, <1>i DEF Result, PullReport, ActorsInv, Early, Late
  <1>4. ASSUME /\ out' \in Seq(Message) /\ http' \in {"none", "ok"}
               /\ (http' = "none" => out' = <<>>), SuccessIsTrue'
        PROVE  StreamInv'
    <2>1. BTypeOK'
      BY <1>1, <1>2, <1>4, <1>i DEF BTypeOK
    <2>2. QED
      BY <2>1, <1>1, <1>3, <1>4 DEF StreamInv, OpenInv, StatusInv, FailureIsLast
  <1>5. CASE Result /\ (sErr \/ tErr)
    <2>1. PICK m \in {<<>>, <<"error">>} : Write(m)
      BY <1>5 DEF Result
    <2>2. m \in Seq(Message) /\ "success" \notin ToSet(m)
      BY <2>1, FixedMessages DEF Message
    <2>3. QED
      BY <1>i, <1>o, <2>1, <2>2, <1>4, PlainWrite DEF SuccessIsTrue
  <1>6. CASE Result /\ ~(sErr \/ tErr)
    <2>1. PICK id \in BOOLEAN, tag \in BOOLEAN :
              /\ Write(IF id \/ tag THEN <<"success">> ELSE <<>>)
              /\ err' \in IF id THEN WriteOutcomes(<<"success">>) ELSE {FALSE}
      BY <1>6 DEF Result, EmitBuildResult
    <2>2. err' => gone
      BY <2>1 DEF WriteOutcomes
    <2>3. CASE id \/ tag
      <3>1. Write(<<"success">>)
        BY <2>1, <2>3
      <3>2. /\ out' \in Seq(Message) /\ http' = "ok"
            /\ ("success" \in ToSet(out') => Last(out') = "success")
        BY <3>1, <1>i, <1>o, SuccessWrite, FixedMessages DEF Message
      <3>3. QED
        BY <3>2, <2>2, <1>1, <1>6, <1>4 DEF SuccessIsTrue
    <2>4. CASE ~(id \/ tag)
      <3>1. Write(<<>>)
        BY <2>1, <2>4
      <3>2. QED
        BY <1>i, <1>o, <3>1, <1>4, PlainWrite, FixedMessages DEF SuccessIsTrue
    <2>5. QED
      BY <2>3, <2>4
  <1>7. CASE PullReport
    <2>1. /\ out' \in Seq(Message) /\ http' = "ok"
          /\ ("success" \in ToSet(out') => Last(out') = "success")
      BY <1>7, <1>i, <1>o, SuccessWrite, FixedMessages DEF PullReport
    <2>2. ~sErr /\ ~tErr /\ ~err'
      BY <1>7, <1>i, <1>o DEF PullReport, ActorsInv, Early
    <2>3. QED
      BY <2>1, <2>2, <1>1, <1>4 DEF SuccessIsTrue
  <1>8. QED
    BY <1>5, <1>6, <1>7

\* Clean-up and answer (build.go:80-91, handlers_images.go:118-130).
LEMMA ClosingStep ==
    ASSUME StreamInv, Cleanup \/ Respond
    PROVE  StreamInv'
  <1>i. BTypeOK /\ ActorsInv /\ OpenInv /\ StatusInv /\ SuccessIsTrue
    BY DEF StreamInv
  <1>1. CASE Cleanup
    <2>1. BTypeOK' /\ ActorsInv'
      BY <1>1, <1>i DEF Cleanup, BTypeOK, ActorsInv, Early, Late, solveVars, transVars
    <2>2. UNCHANGED <<out, http, sErr, tErr, err, gone>> /\ main # "done" /\ main' = "respond"
      BY <1>1 DEF Cleanup, transVars
    <2>3. QED
      BY <2>1, <2>2, <1>i
      DEF StreamInv, OpenInv, StatusInv, SuccessIsTrue, FailureIsLast, Closing
  <1>2. CASE Respond
    <2>1. /\ main = "respond" /\ main' = "done" /\ http # "error"
          /\ UNCHANGED <<op, dir, solver, batch, chan, sent, trans, seen, tErr, sErr, err, gone>>
      BY <1>2, <1>i DEF Respond, StatusInv, solveVars, transVars
    <2>2. ActorsInv'
      BY <2>1, <1>i DEF ActorsInv, Early, Late
    <2>3. CASE err /\ http # "none"
      <3>1. Write(<<"error">>)
        BY <1>2, <2>3 DEF Respond
      <3>2. http' = "ok" /\ out' = IF gone THEN out ELSE out \o <<"error">>
        BY <3>1, <2>1, <2>3, <1>i DEF Write, BTypeOK
      <3>3. CASE gone
        <4>1. out' = out /\ http = "ok"
          BY <3>2, <3>3, <2>1, <2>3, <1>i DEF BTypeOK
        <4>2. BTypeOK'
          BY <2>1, <3>2, <4>1, <1>i DEF BTypeOK
        <4>3. QED
          BY <2>1, <2>2, <3>2, <3>3, <4>1, <4>2, <1>i
          DEF StreamInv, OpenInv, StatusInv, SuccessIsTrue, FailureIsLast, Closing
      <3>4. CASE ~gone
        <4>1. "success" \notin ToSet(out)
          BY <3>4, <2>3, <1>i DEF SuccessIsTrue
        <4>2. /\ out' \in Seq(Message) /\ "success" \notin ToSet(out')
              /\ out' # <<>> /\ Last(out') = "error"
          BY <3>1, <3>4, <4>1, <2>1, <2>3, <1>i, PlainWrite, FixedMessages DEF Message
        <4>3. BTypeOK'
          BY <2>1, <3>2, <4>2, <1>i DEF BTypeOK
        <4>4. QED
          BY <2>1, <2>2, <3>2, <4>2, <4>3
          DEF StreamInv, OpenInv, StatusInv, SuccessIsTrue, FailureIsLast, Closing
      <3>5. QED
        BY <3>3, <3>4
    <2>4. CASE ~(err /\ http # "none")
      <3>1. http' = (IF err THEN "error" ELSE "ok") /\ out' = out
        BY <1>2, <2>4 DEF Respond
      <3>2. BTypeOK'
        BY <2>1, <3>1, <1>i DEF BTypeOK
      <3>3. CASE err
        <4>1. out' = <<>> /\ http' = "error"
          BY <3>1, <3>3, <2>4, <1>i DEF StatusInv
        <4>2. "success" \notin ToSet(out')
          BY <4>1, FixedMessages
        <4>3. QED
          BY <2>1, <2>2, <3>2, <4>1, <4>2
          DEF StreamInv, OpenInv, StatusInv, SuccessIsTrue, FailureIsLast, Closing
      <3>4. CASE ~err
        BY <2>1, <2>2, <3>1, <3>2, <3>4, <1>i
        DEF StreamInv, OpenInv, StatusInv, SuccessIsTrue, FailureIsLast, Closing
      <3>5. QED
        BY <3>3, <3>4
    <2>5. QED
      BY <2>3, <2>4
  <1>3. QED
    BY <1>1, <1>2

\* The solver, the translator and the client.
LEMMA OtherStep ==
    ASSUME StreamInv, Solver \/ SolveEarly \/ SolverReport \/ Translator \/ ClientGone
    PROVE  StreamInv'
  <1>i. BTypeOK /\ ActorsInv /\ OpenInv /\ StatusInv /\ SuccessIsTrue /\ FailureIsLast
    BY DEF StreamInv
  <1>o. main \notin Closing =>
            /\ out \in Seq(Message) /\ "success" \notin ToSet(out)
            /\ http # "error" /\ (http = "none" => out = <<>>)
    BY <1>i DEF BTypeOK, OpenInv, StatusInv, Closing
  <1>1. CASE Solver \/ SolveEarly \/ SolverReport
    <2>1. main = "wait" /\ main' = main
      BY <1>1, <1>i
      DEF Solver, SolverSend, SolverReturn, SolveEarly, SolverReport, ActorsInv, Early, Late, BTypeOK
    <2>2. UNCHANGED <<op, dir, trans, seen, tErr, err, out, http, gone>>
      BY <1>1 DEF Solver, SolverSend, SolverReturn, SolveEarly, SolverReport, transVars
    <2>3. /\ chan' \in Seq(Batch) /\ Len(chan') <= ChanCap /\ batch' \in Batch
          /\ sent' \in 0 .. MaxBatches /\ sErr' \in BOOLEAN
          /\ solver' \in {"off", "run", "send", "closed", "abandoned"}
      <3>1. CASE SolverSend
        <4>1. chan \in Seq(Batch) /\ batch \in Batch /\ Len(chan) \in Nat
          BY <1>i, LenProperties DEF BTypeOK
        <4>2. chan' \in Seq(Batch) /\ Len(chan') = Len(chan) + 1
          BY <4>1, <3>1, AppendProperties DEF SolverSend
        <4>3. QED
          BY <4>1, <4>2, <3>1, <1>i, BuildAssumption DEF SolverSend, BTypeOK
      <3>2. CASE SolverReturn
        BY <3>2, <1>i DEF SolverReturn, BTypeOK
      <3>3. CASE SolveEarly
        BY <3>3, <1>i DEF SolveEarly, BTypeOK
      <3>4. CASE SolverReport
        <4>1. sent' \in 0 .. MaxBatches
          BY <3>4, <1>i, BuildAssumption DEF SolverReport, BTypeOK
        <4>2. QED
          BY <4>1, <3>4, <1>i DEF SolverReport, BTypeOK
      <3>5. QED
        BY <1>1, <3>1, <3>2, <3>3, <3>4 DEF Solver
    <2>4. BTypeOK' /\ ActorsInv'
      BY <2>1, <2>2, <2>3, <1>i DEF BTypeOK, ActorsInv, Early, Late
    <2>5. QED
      BY <2>1, <2>2, <2>4, <1>o, StillOpen DEF Closing
  <1>2. CASE Translate
    <2>1. main = "wait" /\ main' = main /\ trans = "run"
      BY <1>2, <1>i DEF Translate, ActorsInv, Early, Late, BTypeOK
    <2>2. UNCHANGED <<op, dir, solver, batch, sent, trans, sErr, err, gone>>
      BY <1>2 DEF Translate
    <2>3. chan' \in Seq(Batch) /\ Len(chan') <= ChanCap /\ Head(chan) \in Batch
      <3>1. chan \in Seq(Batch) /\ chan # <<>> /\ chan' = Tail(chan) /\ Len(chan) <= ChanCap
        BY <1>2, <1>i DEF Translate, BTypeOK
      <3>2. /\ Head(chan) \in Batch /\ Tail(chan) \in Seq(Batch) /\ Len(Tail(chan)) = Len(chan) - 1
            /\ Len(chan) \in Nat
        BY <3>1, HeadTailProperties, LenProperties
      <3>3. QED
        BY <3>1, <3>2, BuildAssumption
    <2>4. /\ out' \in Seq(Message) /\ http' \in {"none", "ok"}
          /\ "success" \notin ToSet(out') /\ (http' = "none" => out' = <<>>)
          /\ tErr' \in BOOLEAN
          /\ seen' \in [announced : SUBSET Vertex, completed : SUBSET Vertex, error : BOOLEAN]
      <3>o. /\ out \in Seq(Message) /\ "success" \notin ToSet(out)
            /\ http # "error" /\ (http = "none" => out = <<>>)
        BY <1>o, <2>1 DEF Closing
      <3>1. CASE tErr
        BY <1>2, <3>1, <3>o, <1>i DEF Translate, BTypeOK
      <3>2. CASE ~tErr
        <4>1. /\ Write(Lines(Head(chan))) /\ tErr' \in WriteOutcomes(Lines(Head(chan)))
              /\ seen' = Noted(Head(chan), tErr')
          BY <1>2, <3>2 DEF Translate
        <4>2. tErr' \in BOOLEAN
          BY <4>1 DEF WriteOutcomes
        <4>3. seen' \in [announced : SUBSET Vertex, completed : SUBSET Vertex, error : BOOLEAN]
          BY <4>1, <2>3, <1>i DEF Noted, Announces, Finishes, Batch, BTypeOK
        <4>4. QED
          BY <4>1, <4>2, <4>3, <3>o, <1>i, LinesPlain, PlainWrite
      <3>3. QED
        BY <3>1, <3>2
    <2>5. BTypeOK' /\ ActorsInv'
      BY <2>1, <2>2, <2>3, <2>4, <1>i DEF BTypeOK, ActorsInv, Early, Late
    <2>6. QED
      BY <2>1, <2>2, <2>4, <2>5, StillOpen DEF Closing
  <1>3. CASE TranslatorExit
    <2>1. main = "wait" /\ main' = main
      BY <1>3, <1>i DEF TranslatorExit, ActorsInv, Early, Late, BTypeOK
    <2>2. /\ UNCHANGED <<op, dir, solver, batch, chan, sent, seen, tErr, sErr, err, out, http, gone>>
          /\ trans' = "exit"
      BY <1>3 DEF TranslatorExit, solveVars
    <2>3. BTypeOK' /\ ActorsInv'
      BY <2>1, <2>2, <1>i DEF BTypeOK, ActorsInv, Early, Late
    <2>4. QED
      BY <2>1, <2>2, <2>3, <1>o, StillOpen DEF Closing
  <1>4. CASE ClientGone
    <2>1. /\ UNCHANGED <<op, main, dir, solver, batch, chan, sent, trans, seen, tErr, sErr, err, out,
                         http>>
          /\ gone' = TRUE /\ main # "done"
      BY <1>4 DEF ClientGone, solveVars, transVars
    <2>2. BTypeOK' /\ ActorsInv'
      BY <2>1, <1>i DEF BTypeOK, ActorsInv
    <2>3. QED
      BY <2>1, <2>2, <1>i DEF StreamInv, OpenInv, StatusInv, SuccessIsTrue, FailureIsLast
  <1>5. QED
    BY <1>1, <1>2, <1>3, <1>4 DEF Translator

\* A request that has just arrived.
LEMMA StreamInit == BInit => StreamInv
  <1> SUFFICES ASSUME BInit PROVE StreamInv
    OBVIOUS
  <1>1. NoBatch \in Batch
    BY BuildAssumption DEF NoBatch, Batch
  <1>2. <<>> \in Seq(Batch) /\ Len(<<>>) = 0 /\ <<>> \in Seq(Message) /\ "success" \notin ToSet(<<>>)
    BY FixedMessages, EmptySeq
  <1>3. BTypeOK
    <2>1. sent \in 0 .. MaxBatches /\ Len(chan) <= ChanCap
      BY <1>2, BuildAssumption DEF BInit
    <2>2. seen \in [announced : SUBSET Vertex, completed : SUBSET Vertex, error : BOOLEAN]
      BY DEF BInit
    <2>3. QED
      BY <1>1, <1>2, <2>1, <2>2 DEF BInit, BTypeOK
  <1>4. QED
    BY <1>2, <1>3
    DEF BInit, StreamInv, ActorsInv, OpenInv, StatusInv, SuccessIsTrue, FailureIsLast, Early, Late

\* Every step keeps the inductive invariant.
LEMMA StreamStep == StreamInv /\ [BNext]_bVars => StreamInv'
  <1> SUFFICES ASSUME StreamInv, [BNext]_bVars PROVE StreamInv'
    OBVIOUS
  <1>1. CASE UNCHANGED bVars
    BY <1>1
    DEF bVars, StreamInv, BTypeOK, ActorsInv, OpenInv, StatusInv, SuccessIsTrue, FailureIsLast
  <1>2. CASE BNext
    BY <1>2, EarlyStep, ResultStep, ClosingStep, OtherStep DEF BNext, Main
  <1>3. QED
    BY <1>1, <1>2

\* StreamInv holds throughout a request.
LEMMA StreamInvariant == BSpec => []StreamInv
  BY StreamInit, StreamStep, PTL DEF BSpec

\* The state of a request has its types; the status channel never holds more
\* than its capacity (build.go:149).
THEOREM StreamTypeCorrect == BSpec => []BTypeOK
  <1>1. StreamInv => BTypeOK
    BY DEF StreamInv
  <1>2. QED
    BY <1>1, StreamInvariant, PTL

\* For every number of steps, batches and channel slots, a success line is the
\* last of its stream and true (build.go:159-166).
THEOREM SuccessHolds == BSpec => []SuccessIsTrue
  <1>1. StreamInv => SuccessIsTrue
    BY DEF StreamInv
  <1>2. QED
    BY <1>1, StreamInvariant, PTL

\* A client that stays learns in the end that its request failed
\* (handlers_images.go:118-130).
THEOREM FailureTold == BSpec => []FailureIsLast
  <1>1. StreamInv => FailureIsLast
    BY DEF StreamInv
  <1>2. QED
    BY <1>1, StreamInvariant, PTL

\* No translator outlives the result and no build context its request
\* (build.go:80-91, 157).
THEOREM NothingLeft == BSpec => []BuildLeavesNothing
  <1>1. StreamInv => BuildLeavesNothing
    BY DEF StreamInv, ActorsInv, Late, BuildLeavesNothing
  <1>2. QED
    BY <1>1, StreamInvariant, PTL
=============================================================================
