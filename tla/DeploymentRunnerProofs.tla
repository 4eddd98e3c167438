----------------------- MODULE DeploymentRunnerProofs -----------------------
(***************************************************************************)
(* What a run of executeDeployment leaves on GitHub, on the VM and in the   *)
(* error issue, proved for every number of commits, concurrent runs, failed *)
(* calls and crashes: InProgressEnds, VmAgreesWithRow, IssueTellsOutcome,   *)
(* ChecksSettle and the types.                                              *)
(*                                                                         *)
(* A run is a list of steps it still has to do, so what is true of it is    *)
(* said by place: run b comes to step n of the course c.  The first part    *)
(* says what stands at each place of the five courses, and how each action  *)
(* moves a run from place to place.  The invariants then speak of places:   *)
(*   HostInv     a deployment in progress belongs to one run, which is      *)
(*               between the steps that report on it;                       *)
(*   OutcomeInv  while one run is alone, what it has done so far is there,  *)
(*               and the error issue is that of the last outcome;           *)
(*   CheckInv    of a commit with one run, only the newest check run is     *)
(*               open, and a run with an outcome has still to close it.     *)
(***************************************************************************)
EXTENDS DeploymentRunner, TLAPS

-----------------------------------------------------------------------------
(* The courses, place by place.                                             *)

\* What is left of the course c at its step n, and the number of its steps.
Left(c, n) == SubSeq(Courses[c], n, Len(Courses[c]))
End(c) == Len(Courses[c])

StepSet ==
  [op : {"check", "admit", "row", "host", "workflows", "approval", "status", "vm", "compose",
         "caddyfile", "caddy", "succeed", "audit", "close", "compensate", "fail", "report"},
   arg : {"", "queued", "in_progress", "success", "failure"}]

\* The course of a deployment.
LEMMA DeployAt ==
  /\ End("deploy") = 21 /\ Courses["deploy"] \in Seq(StepSet)
  /\ Courses["deploy"][1] = Step("check", "queued")
  /\ Courses["deploy"][2] = Step("admit", "")
  /\ Courses["deploy"][3] = Step("row", "")
  /\ Courses["deploy"][4] = Step("host", "")
  /\ Courses["deploy"][5] = Step("check", "queued")
  /\ Courses["deploy"][6] = Step("workflows", "")
  /\ Courses["deploy"][7] = Step("check", "queued")
  /\ Courses["deploy"][8] = Step("approval", "")
  /\ Courses["deploy"][9] = Step("status", "in_progress")
  /\ Courses["deploy"][10] = Step("check", "in_progress")
  /\ Courses["deploy"][11] = Step("vm", "")
  /\ Courses["deploy"][12] = Step("check", "in_progress")
  /\ Courses["deploy"][13] = Step("compose", "")
  /\ Courses["deploy"][14] = Step("caddyfile", "")
  /\ Courses["deploy"][15] = Step("check", "in_progress")
  /\ Courses["deploy"][16] = Step("caddy", "")
  /\ Courses["deploy"][17] = Step("succeed", "")
  /\ Courses["deploy"][18] = Step("status", "success")
  /\ Courses["deploy"][19] = Step("check", "success")
  /\ Courses["deploy"][20] = Step("audit", "")
  /\ Courses["deploy"][21] = Step("close", "")
<1>1. Courses["deploy"] = Deploy
  BY DEF Courses, WithDeploy, CourseNames
<1>2. Deploy \in Seq(StepSet)
  BY DEF Deploy, Step, StepSet
<1>3. Len(Deploy) = 21
  BY DEF Deploy
<1>4. /\ Deploy[1] = Step("check", "queued") /\ Deploy[2] = Step("admit", "")
      /\ Deploy[3] = Step("row", "") /\ Deploy[4] = Step("host", "")
      /\ Deploy[5] = Step("check", "queued") /\ Deploy[6] = Step("workflows", "")
      /\ Deploy[7] = Step("check", "queued") /\ Deploy[8] = Step("approval", "")
      /\ Deploy[9] = Step("status", "in_progress") /\ Deploy[10] = Step("check", "in_progress")
      /\ Deploy[11] = Step("vm", "") /\ Deploy[12] = Step("check", "in_progress")
      /\ Deploy[13] = Step("compose", "") /\ Deploy[14] = Step("caddyfile", "")
      /\ Deploy[15] = Step("check", "in_progress") /\ Deploy[16] = Step("caddy", "")
      /\ Deploy[17] = Step("succeed", "") /\ Deploy[18] = Step("status", "success")
      /\ Deploy[19] = Step("check", "success") /\ Deploy[20] = Step("audit", "")
      /\ Deploy[21] = Step("close", "")
  BY DEF Deploy
<1> QED BY <1>1, <1>2, <1>3, <1>4 DEF End

\* The other courses.
LEMMA OthersAt ==
  /\ End("recover") = 5 /\ Courses["recover"] \in Seq(StepSet)
  /\ Courses["recover"][1] = Step("compensate", "")
  /\ Courses["recover"][2] = Step("fail", "")
  /\ Courses["recover"][3] = Step("status", "failure")
  /\ Courses["recover"][4] = Step("check", "failure")
  /\ Courses["recover"][5] = Step("report", "")
  /\ End("reject") = 2 /\ Courses["reject"] \in Seq(StepSet)
  /\ Courses["reject"][1] = Step("check", "failure")
  /\ Courses["reject"][2] = Step("report", "")
  /\ End("refuse") = 1 /\ Courses["refuse"] \in Seq(StepSet)
  /\ Courses["refuse"][1] = Step("check", "failure")
  /\ End("park") = 1 /\ Courses["park"] \in Seq(StepSet)
  /\ Courses["park"][1] = Step("check", "queued")
<1>1. /\ Courses["recover"] = Recover
      /\ Courses["reject"] = <<Step("check", "failure"), Step("report", "")>>
      /\ Courses["refuse"] = <<Step("check", "failure")>>
      /\ Courses["park"] = <<Step("check", "queued")>>
  BY DEF Courses, WithDeploy, CourseNames
<1>2. Step("check", "failure") \in StepSet /\ Step("report", "") \in StepSet
      /\ Step("check", "queued") \in StepSet
  BY DEF Step, StepSet
<1>3. Recover \in Seq(StepSet)
  BY DEF Recover, Step, StepSet
<1>4. /\ Len(Recover) = 5
      /\ Recover[1] = Step("compensate", "") /\ Recover[2] = Step("fail", "")
      /\ Recover[3] = Step("status", "failure") /\ Recover[4] = Step("check", "failure")
      /\ Recover[5] = Step("report", "")
  BY DEF Recover
<1>5. /\ End("recover") = 5 /\ Courses["recover"] \in Seq(StepSet)
      /\ Courses["recover"][1] = Step("compensate", "")
      /\ Courses["recover"][2] = Step("fail", "")
      /\ Courses["recover"][3] = Step("status", "failure")
      /\ Courses["recover"][4] = Step("check", "failure")
      /\ Courses["recover"][5] = Step("report", "")
  BY <1>1, <1>3, <1>4 DEF End
<1> DEFINE Two == <<Step("check", "failure"), Step("report", "")>>
           One(s) == <<s>>
<1>6. /\ Two \in Seq(StepSet) /\ Len(Two) = 2
      /\ Two[1] = Step("check", "failure") /\ Two[2] = Step("report", "")
  <2>1. \A a, b \in StepSet : <<a, b>> \in Seq(StepSet) /\ Len(<<a, b>>) = 2 /\ <<a, b>>[1] = a /\ <<a, b>>[2] = b
    OBVIOUS
  <2> QED BY <2>1, <1>2
<1>7. \A s \in StepSet : One(s) \in Seq(StepSet) /\ Len(One(s)) = 1 /\ One(s)[1] = s
  OBVIOUS
<1>8. /\ Courses["reject"] = Two /\ Courses["refuse"] = One(Step("check", "failure"))
      /\ Courses["park"] = One(Step("check", "queued"))
  BY <1>1
<1> HIDE DEF Two, One
<1>9. /\ End("reject") = 2 /\ Courses["reject"] \in Seq(StepSet)
      /\ Courses["reject"][1] = Step("check", "failure") /\ Courses["reject"][2] = Step("report", "")
  BY <1>6, <1>8 DEF End
<1>10. /\ End("refuse") = 1 /\ Courses["refuse"] \in Seq(StepSet)
       /\ Courses["refuse"][1] = Step("check", "failure")
  BY <1>2, <1>7, <1>8 DEF End
<1>11. /\ End("park") = 1 /\ Courses["park"] \in Seq(StepSet)
       /\ Courses["park"][1] = Step("check", "queued")
  BY <1>2, <1>7, <1>8 DEF End
<1> QED BY <1>5, <1>9, <1>10, <1>11

\* A course is a sequence of steps with at least one.
LEMMA CourseSeq ==
  ASSUME NEW c \in CourseNames
  PROVE  Courses[c] \in Seq(StepSet) /\ End(c) \in Nat /\ End(c) > 0
<1>1. End("deploy") = 21 /\ Courses["deploy"] \in Seq(StepSet)
  BY DeployAt
<1>2. End("recover") = 5 /\ Courses["recover"] \in Seq(StepSet)
  BY OthersAt
<1>3. /\ End("reject") = 2 /\ Courses["reject"] \in Seq(StepSet)
      /\ End("refuse") = 1 /\ Courses["refuse"] \in Seq(StepSet)
      /\ End("park") = 1 /\ Courses["park"] \in Seq(StepSet)
  BY OthersAt
<1>4. c \in {"deploy", "recover", "reject", "refuse", "park"}
  BY DEF CourseNames
<1> QED BY <1>1, <1>2, <1>3, <1>4

\* What is left begins with the step the run comes to, then goes on.
LEMMA LeftFacts ==
  ASSUME NEW c \in CourseNames
  PROVE  /\ End(c) \in Nat /\ End(c) > 0
         /\ Left(c, 1) = Courses[c]
         /\ Left(c, End(c) + 1) = <<>>
         /\ \A n \in 1..End(c) :
              /\ Left(c, n) # <<>>
              /\ Len(Left(c, n)) = End(c) - n + 1
              /\ Head(Left(c, n)) = Courses[c][n]
              /\ Tail(Left(c, n)) = Left(c, n + 1)
<1>1. Courses[c] \in Seq(StepSet) /\ End(c) \in Nat /\ End(c) > 0
  BY CourseSeq
<1> DEFINE s == Courses[c]
<1> HIDE DEF s
<1>2. s \in Seq(StepSet) /\ Len(s) > 0
  BY <1>1 DEF s, End
<1>3. SubSeq(s, 1, Len(s)) = s
  BY <1>2
<1>4. SubSeq(s, Len(s) + 1, Len(s)) = <<>>
  BY <1>2
<1>5. ASSUME NEW n \in 1..Len(s)
      PROVE  /\ SubSeq(s, n, Len(s)) # <<>>
             /\ Len(SubSeq(s, n, Len(s))) = Len(s) - n + 1
             /\ Head(SubSeq(s, n, Len(s))) = s[n]
             /\ Tail(SubSeq(s, n, Len(s))) = SubSeq(s, n + 1, Len(s))
  <2>1. Len(SubSeq(s, n, Len(s))) = Len(s) - n + 1
    BY <1>2
  <2>2. SubSeq(s, n, Len(s)) # <<>>
    <3>1. Len(<<>>) = 0 /\ Len(SubSeq(s, n, Len(s))) > 0
      BY <1>2, <2>1
    <3>2. ASSUME SubSeq(s, n, Len(s)) = <<>> PROVE FALSE
      <4>1. Len(SubSeq(s, n, Len(s))) = Len(<<>>)
        BY <3>2
      <4> QED BY <3>1, <4>1
    <3> QED BY <3>2
  <2>3. Head(SubSeq(s, n, Len(s))) = s[n]
    BY <1>2, <2>1
  <2>4. Tail(SubSeq(s, n, Len(s))) = SubSeq(s, n + 1, Len(s))
    BY <1>2, <2>1
  <2> QED BY <2>1, <2>2, <2>3, <2>4
<1> QED BY <1>1, <1>3, <1>4, <1>5 DEF s, Left, End

\* The places in the courses where a kind of step stands.
PlaceOf(s, c, n) ==
  /\ s.op = "admit" => c = "deploy" /\ n = 2
  /\ s.op = "row" => c = "deploy" /\ n = 3
  /\ s.op = "host" => c = "deploy" /\ n = 4
  /\ s.op = "workflows" => c = "deploy" /\ n = 6
  /\ s.op = "approval" => c = "deploy" /\ n = 8
  /\ s.op = "vm" => c = "deploy" /\ n = 11
  /\ s.op = "compose" => c = "deploy" /\ n = 13
  /\ s.op = "caddyfile" => c = "deploy" /\ n = 14
  /\ s.op = "caddy" => c = "deploy" /\ n = 16
  /\ s.op = "succeed" => c = "deploy" /\ n = 17
  /\ s.op = "audit" => c = "deploy" /\ n = 20
  /\ s.op = "close" => c = "deploy" /\ n = 21
  /\ s.op = "compensate" => c = "recover" /\ n = 1
  /\ s.op = "fail" => c = "recover" /\ n = 2
  /\ s.op = "report" => (c = "recover" /\ n = 5) \/ (c = "reject" /\ n = 2)
  /\ s.op = "status" =>
       \/ s.arg = "in_progress" /\ c = "deploy" /\ n = 9
       \/ s.arg = "success" /\ c = "deploy" /\ n = 18
       \/ s.arg = "failure" /\ c = "recover" /\ n = 3
  /\ s.op = "check" =>
       \/ s.arg = "queued" /\ ((c = "deploy" /\ n \in {1, 5, 7}) \/ (c = "park" /\ n = 1))
       \/ s.arg = "in_progress" /\ c = "deploy" /\ n \in {10, 12, 15}
       \/ s.arg = "success" /\ c = "deploy" /\ n = 19
       \/ s.arg = "failure" /\ ((c = "recover" /\ n = 4) \/ (c \in {"reject", "refuse"} /\ n = 1))

\* No step stands at another place than PlaceOf says.
LEMMA StepPlaces ==
  ASSUME NEW c \in CourseNames, NEW n \in 1..End(c)
  PROVE  PlaceOf(Courses[c][n], c, n)
<1>1. CASE c = "deploy"
  <2>1. /\ PlaceOf(Courses["deploy"][1], "deploy", 1)
       /\ PlaceOf(Courses["deploy"][2], "deploy", 2)
       /\ PlaceOf(Courses["deploy"][3], "deploy", 3)
       /\ PlaceOf(Courses["deploy"][4], "deploy", 4)
    <3>1. /\ PlaceOf(Step("check", "queued"), "deploy", 1)
          /\ PlaceOf(Step("admit", ""), "deploy", 2)
          /\ PlaceOf(Step("row", ""), "deploy", 3)
          /\ PlaceOf(Step("host", ""), "deploy", 4)
      BY DEF PlaceOf, Step
    <3> QED BY <3>1, DeployAt
  <2>2. /\ PlaceOf(Courses["deploy"][5], "deploy", 5)
       /\ PlaceOf(Courses["deploy"][6], "deploy", 6)
       /\ PlaceOf(Courses["deploy"][7], "deploy", 7)
       /\ PlaceOf(Courses["deploy"][8], "deploy", 8)
    <3>1. /\ PlaceOf(Step("check", "queued"), "deploy", 5)
          /\ PlaceOf(Step("workflows", ""), "deploy", 6)
          /\ PlaceOf(Step("check", "queued"), "deploy", 7)
          /\ PlaceOf(Step("approval", ""), "deploy", 8)
      BY DEF PlaceOf, Step
    <3> QED BY <3>1, DeployAt
  <2>3. /\ PlaceOf(Courses["deploy"][9], "deploy", 9)
       /\ PlaceOf(Courses["deploy"][10], "deploy", 10)
       /\ PlaceOf(Courses["deploy"][11], "deploy", 11)
       /\ PlaceOf(Courses["deploy"][12], "deploy", 12)
    <3>1. /\ PlaceOf(Step("status", "in_progress"), "deploy", 9)
          /\ PlaceOf(Step("check", "in_progress"), "deploy", 10)
          /\ PlaceOf(Step("vm", ""), "deploy", 11)
          /\ PlaceOf(Step("check", "in_progress"), "deploy", 12)
      BY DEF PlaceOf, Step
    <3> QED BY <3>1, DeployAt
  <2>4. /\ PlaceOf(Courses["deploy"][13], "deploy", 13)
       /\ PlaceOf(Courses["deploy"][14], "deploy", 14)
       /\ PlaceOf(Courses["deploy"][15], "deploy", 15)
       /\ PlaceOf(Courses["deploy"][16], "deploy", 16)
    <3>1. /\ PlaceOf(Step("compose", ""), "deploy", 13)
          /\ PlaceOf(Step("caddyfile", ""), "deploy", 14)
          /\ PlaceOf(Step("check", "in_progress"), "deploy", 15)
          /\ PlaceOf(Step("caddy", ""), "deploy", 16)
      BY DEF PlaceOf, Step
    <3> QED BY <3>1, DeployAt
  <2>5. /\ PlaceOf(Courses["deploy"][17], "deploy", 17)
       /\ PlaceOf(Courses["deploy"][18], "deploy", 18)
       /\ PlaceOf(Courses["deploy"][19], "deploy", 19)
       /\ PlaceOf(Courses["deploy"][20], "deploy", 20)
    <3>1. /\ PlaceOf(Step("succeed", ""), "deploy", 17)
          /\ PlaceOf(Step("status", "success"), "deploy", 18)
          /\ PlaceOf(Step("check", "success"), "deploy", 19)
          /\ PlaceOf(Step("audit", ""), "deploy", 20)
      BY DEF PlaceOf, Step
    <3> QED BY <3>1, DeployAt
  <2>6. PlaceOf(Courses["deploy"][21], "deploy", 21)
    <3>1. PlaceOf(Step("close", ""), "deploy", 21)
      BY DEF PlaceOf, Step
    <3> QED BY <3>1, DeployAt
  <2>7. n \in 1..21
    BY <1>1, DeployAt
  <2> QED BY <1>1, <2>1, <2>2, <2>3, <2>4, <2>5, <2>6, <2>7
<1>2. CASE c = "recover"
  <2>1. /\ PlaceOf(Courses["recover"][1], "recover", 1)
       /\ PlaceOf(Courses["recover"][2], "recover", 2)
       /\ PlaceOf(Courses["recover"][3], "recover", 3)
       /\ PlaceOf(Courses["recover"][4], "recover", 4)
    <3>1. /\ PlaceOf(Step("compensate", ""), "recover", 1)
          /\ PlaceOf(Step("fail", ""), "recover", 2)
          /\ PlaceOf(Step("status", "failure"), "recover", 3)
          /\ PlaceOf(Step("check", "failure"), "recover", 4)
      BY DEF PlaceOf, Step
    <3> QED BY <3>1, OthersAt
  <2>2. PlaceOf(Courses["recover"][5], "recover", 5)
    <3>1. PlaceOf(Step("report", ""), "recover", 5)
      BY DEF PlaceOf, Step
    <3> QED BY <3>1, OthersAt
  <2>3. n \in 1..5
    BY <1>2, OthersAt
  <2> QED BY <1>2, <2>1, <2>2, <2>3
<1>3. CASE c = "reject"
  <2>1. /\ PlaceOf(Courses["reject"][1], "reject", 1)
       /\ PlaceOf(Courses["reject"][2], "reject", 2)
    <3>1. /\ PlaceOf(Step("check", "failure"), "reject", 1)
          /\ PlaceOf(Step("report", ""), "reject", 2)
      BY DEF PlaceOf, Step
    <3> QED BY <3>1, OthersAt
  <2>2. n \in 1..2
    BY <1>3, OthersAt
  <2> QED BY <1>3, <2>1, <2>2
<1>4. CASE c = "refuse"
  <2>1. PlaceOf(Courses["refuse"][1], "refuse", 1)
    <3>1. PlaceOf(Step("check", "failure"), "refuse", 1)
      BY DEF PlaceOf, Step
    <3> QED BY <3>1, OthersAt
  <2>2. n \in 1..1
    BY <1>4, OthersAt
  <2> QED BY <1>4, <2>1, <2>2
<1>5. CASE c = "park"
  <2>1. PlaceOf(Courses["park"][1], "park", 1)
    <3>1. PlaceOf(Step("check", "queued"), "park", 1)
      BY DEF PlaceOf, Step
    <3> QED BY <3>1, OthersAt
  <2>2. n \in 1..1
    BY <1>5, OthersAt
  <2> QED BY <1>5, <2>1, <2>2
<1> QED BY <1>1, <1>2, <1>3, <1>4, <1>5 DEF CourseNames

-----------------------------------------------------------------------------
(* The types, and where a run is in its course.                             *)

Run == [left : Seq(StepSet), commit : Commits \cup {SomeCommit}, hosted : Nat,
        composed : BOOLEAN, seen : Nat \cup {Unlisted}]

DataTyped ==
  /\ row \in [Commits -> Status] /\ hosted \in Seq(HostedState)
  /\ checks \in [Commits -> Seq(CheckState)] /\ issues \in Nat
  /\ vm \in Known /\ caddy \in Known
  /\ starts \in Nat /\ faults \in Nat /\ overlapped \in BOOLEAN
  /\ doubled \subseteq Commits /\ missed \subseteq DOMAIN hosted

\* The run r comes to step n of the course c.
In(r, c, n) == c \in CourseNames /\ n \in 1..End(c) /\ r.left = Left(c, n)

OnCourse(r) == r = IdleBody \/ (r.commit \in Commits /\ \E c, n : In(r, c, n))

BodyTyped == body \in [Bodies -> Run] /\ \A b \in Bodies : OnCourse(body[b])

\* A run at rest.
LEMMA IdleTyped ==
  /\ IdleBody \in Run /\ IdleBody.left = <<>> /\ OnCourse(IdleBody)
  /\ IdleBody.hosted = 0 /\ IdleBody.seen = Unlisted /\ IdleBody.composed = FALSE
BY DEF IdleBody, Run, OnCourse, Unlisted

\* A run that is in a course has steps left, the next of them in that place.
LEMMA InFacts ==
  ASSUME NEW r, NEW c, NEW n, In(r, c, n)
  PROVE  /\ r.left # <<>> /\ Head(r.left) = Courses[c][n] /\ Tail(r.left) = Left(c, n + 1)
         /\ Len(r.left) = End(c) - n + 1 /\ End(c) \in Nat /\ n \in Nat /\ n <= End(c)
BY LeftFacts DEF In

\* Past its step, a run is at the next place or, after the last, at rest.
LEMMA MovedFacts ==
  ASSUME NEW r \in Run, NEW c, NEW n, In(r, c, n), OnCourse(r)
  PROVE  /\ Moved(r) \in Run /\ OnCourse(Moved(r))
         /\ n = End(c) => Moved(r) = IdleBody
         /\ n # End(c) =>
              /\ In(Moved(r), c, n + 1)
              /\ Moved(r).commit = r.commit /\ Moved(r).hosted = r.hosted
              /\ Moved(r).composed = r.composed /\ Moved(r).seen = Unlisted
<1>1. /\ r.left # <<>> /\ Tail(r.left) = Left(c, n + 1) /\ Len(r.left) = End(c) - n + 1
      /\ End(c) \in Nat /\ n \in Nat /\ n <= End(c) /\ c \in CourseNames
  <2>1. c \in CourseNames
    BY DEF In
  <2> QED BY <2>1, InFacts
<1>2. r # IdleBody
  BY <1>1, IdleTyped
<1>3. CASE n = End(c)
  <2>1. Moved(r) = IdleBody
    BY <1>1, <1>3 DEF Moved
  <2> QED BY <2>1, <1>3, IdleTyped
<1>4. CASE n # End(c)
  <2>1. Moved(r) = [r EXCEPT !.left = Tail(@), !.seen = Unlisted]
    BY <1>1, <1>4 DEF Moved
  <2>2. Tail(r.left) \in Seq(StepSet)
    BY <1>1 DEF Run
  <2>3. /\ Moved(r) \in Run /\ Moved(r).left = Left(c, n + 1)
        /\ Moved(r).commit = r.commit /\ Moved(r).hosted = r.hosted
        /\ Moved(r).composed = r.composed /\ Moved(r).seen = Unlisted
    BY <2>1, <2>2, <1>1 DEF Run
  <2>4. In(Moved(r), c, n + 1)
    BY <2>3, <1>1, <1>4 DEF In
  <2> QED BY <2>3, <2>4, <1>2, <1>4 DEF OnCourse
<1> QED BY <1>3, <1>4

\* A run turned to another course is at its beginning.
LEMMA TurnedFacts ==
  ASSUME NEW r \in Run, NEW c \in CourseNames, r.commit \in Commits
  PROVE  /\ Turned(r, c) \in Run /\ OnCourse(Turned(r, c)) /\ In(Turned(r, c), c, 1)
         /\ Turned(r, c).commit = r.commit /\ Turned(r, c).hosted = r.hosted
         /\ Turned(r, c).composed = r.composed /\ Turned(r, c).seen = Unlisted
<1>1. Courses[c] = Left(c, 1) /\ 1 \in 1..End(c) /\ Courses[c] \in Seq(StepSet)
  BY LeftFacts, CourseSeq
<1>2. /\ Turned(r, c) \in Run /\ Turned(r, c).left = Courses[c]
      /\ Turned(r, c).commit = r.commit /\ Turned(r, c).hosted = r.hosted
      /\ Turned(r, c).composed = r.composed /\ Turned(r, c).seen = Unlisted
  BY <1>1 DEF Turned, Run
<1>3. In(Turned(r, c), c, 1)
  BY <1>1, <1>2 DEF In
<1> QED BY <1>2, <1>3 DEF OnCourse

\* What run b keeps when it moves, where it moves to, and that others stay.
Same(b) ==
  /\ body'[b].commit = body[b].commit /\ body'[b].hosted = body[b].hosted
  /\ body'[b].composed = body[b].composed /\ body'[b].seen = Unlisted
Went(b, c, n) ==
  /\ n = End(c) => body'[b] = IdleBody
  /\ n # End(c) => In(body'[b], c, n + 1) /\ Same(b)
Came(b, c) == In(body'[b], c, 1) /\ Same(b)
Alone(b) == \A d \in Bodies \ {b} : body'[d] = body[d]

\* One run is written.
LEMMA BodyMoves ==
  ASSUME BodyTyped, NEW b \in Bodies, NEW r \in Run, OnCourse(r), body' = [body EXCEPT ![b] = r]
  PROVE  BodyTyped' /\ Alone(b) /\ body'[b] = r
<1>1. /\ body' \in [Bodies -> Run] /\ body'[b] = r
      /\ \A d \in Bodies \ {b} : body'[d] = body[d]
  BY DEF BodyTyped
<1>2. \A d \in Bodies : OnCourse(body'[d])
  BY <1>1 DEF BodyTyped
<1>3. BodyTyped'
  BY <1>1, <1>2 DEF BodyTyped, OnCourse, In
<1> QED BY <1>1, <1>3 DEF Alone

\* A run at work is somewhere, and its step is one of that place.
LEMMA At ==
  ASSUME BodyTyped, NEW b \in Bodies, Running(b)
  PROVE  /\ body[b] \in Run /\ OnCourse(body[b]) /\ Commit(b) \in Commits
         /\ \E c, n : In(body[b], c, n)
         /\ \A c, n : In(body[b], c, n) => PlaceOf(Head(body[b].left), c, n)
<1>1. body[b] \in Run /\ OnCourse(body[b]) /\ body[b] # IdleBody
  BY IdleTyped DEF BodyTyped, Running
<1>2. Commit(b) \in Commits /\ \E c, n : In(body[b], c, n)
  BY <1>1 DEF OnCourse, Commit
<1>3. ASSUME NEW c, NEW n, In(body[b], c, n) PROVE PlaceOf(Head(body[b].left), c, n)
  <2>1. c \in CourseNames /\ n \in 1..End(c)
    BY <1>3 DEF In
  <2> QED BY <2>1, <1>3, InFacts, StepPlaces
<1> QED BY <1>1, <1>2, <1>3

\* A run goes past its step.
LEMMA AdvanceMoves ==
  ASSUME BodyTyped, NEW b \in Bodies, NEW c, NEW n, In(body[b], c, n), Advance(b)
  PROVE  BodyTyped' /\ Alone(b) /\ Went(b, c, n)
<1>1. Running(b)
  BY InFacts DEF Running
<1>2. body[b] \in Run /\ OnCourse(body[b])
  BY <1>1, At
<1>3. Moved(body[b]) \in Run /\ OnCourse(Moved(body[b]))
  BY <1>2, MovedFacts
<1>4. body' = [body EXCEPT ![b] = Moved(body[b])]
  BY DEF Advance
<1>5. BodyTyped' /\ Alone(b) /\ body'[b] = Moved(body[b])
  BY <1>3, <1>4, BodyMoves
<1>6. Went(b, c, n)
  BY <1>2, <1>5, MovedFacts DEF Went, Same
<1> QED BY <1>5, <1>6

\* A run turns to another course.
LEMMA TurnMoves ==
  ASSUME BodyTyped, NEW b \in Bodies, Running(b), NEW c \in CourseNames, Turn(b, c)
  PROVE  BodyTyped' /\ Alone(b) /\ Came(b, c)
<1>1. body[b] \in Run /\ body[b].commit \in Commits
  BY At DEF Commit
<1>2. Turned(body[b], c) \in Run /\ OnCourse(Turned(body[b], c))
  BY <1>1, TurnedFacts
<1>3. body' = [body EXCEPT ![b] = Turned(body[b], c)]
  BY DEF Turn
<1>4. BodyTyped' /\ Alone(b) /\ body'[b] = Turned(body[b], c)
  BY <1>2, <1>3, BodyMoves
<1> QED BY <1>1, <1>4, TurnedFacts DEF Came, Same

\* A run drops out.
LEMMA IdleMoves ==
  ASSUME BodyTyped, NEW b \in Bodies, body' = [body EXCEPT ![b] = IdleBody]
  PROVE  BodyTyped' /\ Alone(b) /\ body'[b] = IdleBody
BY BodyMoves, IdleTyped

-----------------------------------------------------------------------------
(* What each kind of step does to the run that takes it.                    *)

\* A run starts.
LEMMA StartMoves ==
  ASSUME BodyTyped, NEW b \in Bodies, NEW c \in Commits, Start(b, c)
  PROVE  /\ BodyTyped' /\ Alone(b) /\ body[b] = IdleBody
         /\ In(body'[b], "deploy", 1) /\ body'[b].commit = c
         /\ body'[b].hosted = 0 /\ body'[b].composed = FALSE /\ body'[b].seen = Unlisted
<1> DEFINE r == [IdleBody EXCEPT !.left = Courses["deploy"], !.commit = c]
<1>1. "deploy" \in CourseNames
  BY DEF CourseNames
<1>2. Courses["deploy"] = Left("deploy", 1) /\ 1 \in 1..End("deploy") /\ Courses["deploy"] \in Seq(StepSet)
  BY <1>1, LeftFacts, CourseSeq
<1>3. /\ r \in Run /\ r.left = Courses["deploy"] /\ r.commit = c
      /\ r.hosted = 0 /\ r.composed = FALSE /\ r.seen = Unlisted
  BY <1>2 DEF IdleBody, Run, Unlisted
<1>4. In(r, "deploy", 1)
  BY <1>1, <1>2, <1>3 DEF In
<1>5. OnCourse(r)
  BY <1>3, <1>4 DEF OnCourse
<1>6. body' = [body EXCEPT ![b] = r]
  BY DEF Start
<1> HIDE DEF r
<1>7. BodyTyped' /\ Alone(b) /\ body'[b] = r
  BY <1>3, <1>5, <1>6, BodyMoves
<1>8. body[b] = IdleBody
  <2>1. OnCourse(body[b]) /\ body[b].left = <<>>
    BY DEF BodyTyped, Start, Running
  <2> QED BY <2>1, InFacts DEF OnCourse
<1> QED BY <1>3, <1>4, <1>7, <1>8

\* The lengths of the courses.
LEMMA Ends ==
  /\ End("deploy") = 21 /\ End("recover") = 5 /\ End("reject") = 2
  /\ End("refuse") = 1 /\ End("park") = 1
  /\ {"deploy", "recover", "reject", "refuse", "park"} \subseteq CourseNames
BY DeployAt, OthersAt DEF CourseNames

\* Where a run is that does a step of one place.
LEMMA PlaceIs ==
  ASSUME BodyTyped, NEW b \in Bodies
  PROVE  /\ Does(b, "admit") => In(body[b], "deploy", 2)
         /\ Does(b, "row") => In(body[b], "deploy", 3)
         /\ Does(b, "host") => In(body[b], "deploy", 4)
         /\ Does(b, "workflows") => In(body[b], "deploy", 6)
         /\ Does(b, "approval") => In(body[b], "deploy", 8)
         /\ Does(b, "vm") => In(body[b], "deploy", 11)
         /\ Does(b, "compose") => In(body[b], "deploy", 13)
         /\ Does(b, "caddyfile") => In(body[b], "deploy", 14)
         /\ Does(b, "caddy") => In(body[b], "deploy", 16)
         /\ Does(b, "succeed") => In(body[b], "deploy", 17)
         /\ Does(b, "audit") => In(body[b], "deploy", 20)
         /\ Does(b, "close") => In(body[b], "deploy", 21)
         /\ Does(b, "compensate") => In(body[b], "recover", 1)
         /\ Does(b, "fail") => In(body[b], "recover", 2)
         /\ Does(b, "report") => In(body[b], "recover", 5) \/ In(body[b], "reject", 2)
<1> SUFFICES ASSUME Running(b) PROVE
         /\ Does(b, "admit") => In(body[b], "deploy", 2)
         /\ Does(b, "row") => In(body[b], "deploy", 3)
         /\ Does(b, "host") => In(body[b], "deploy", 4)
         /\ Does(b, "workflows") => In(body[b], "deploy", 6)
         /\ Does(b, "approval") => In(body[b], "deploy", 8)
         /\ Does(b, "vm") => In(body[b], "deploy", 11)
         /\ Does(b, "compose") => In(body[b], "deploy", 13)
         /\ Does(b, "caddyfile") => In(body[b], "deploy", 14)
         /\ Does(b, "caddy") => In(body[b], "deploy", 16)
         /\ Does(b, "succeed") => In(body[b], "deploy", 17)
         /\ Does(b, "audit") => In(body[b], "deploy", 20)
         /\ Does(b, "close") => In(body[b], "deploy", 21)
         /\ Does(b, "compensate") => In(body[b], "recover", 1)
         /\ Does(b, "fail") => In(body[b], "recover", 2)
         /\ Does(b, "report") => In(body[b], "recover", 5) \/ In(body[b], "reject", 2)
  BY DEF Does
<1>1. PICK c, n : In(body[b], c, n) /\ PlaceOf(Head(body[b].left), c, n)
  BY At
<1> QED BY <1>1 DEF Does, PlaceOf

\* A run looks for its commit's check run.
LEMMA ListMoves ==
  ASSUME BodyTyped, DataTyped, NEW b \in Bodies, ListChecks(b)
  PROVE  /\ BodyTyped' /\ Alone(b) /\ Running(b) /\ body'[b].left = body[b].left
         /\ body'[b].commit = body[b].commit /\ body'[b].hosted = body[b].hosted
         /\ body'[b].composed = body[b].composed /\ body'[b].seen = Newest(Commit(b))
<1>1. Running(b)
  BY DEF ListChecks, Does
<1>2. body[b] \in Run /\ Commit(b) \in Commits /\ OnCourse(body[b]) /\ \E c, n : In(body[b], c, n)
  BY <1>1, At
<1>3. Newest(Commit(b)) \in Nat
  <2>1. checks[Commit(b)] \in Seq(CheckState)
    BY <1>2 DEF DataTyped
  <2> QED BY <2>1 DEF Newest
<1> DEFINE r == [body[b] EXCEPT !.seen = Newest(Commit(b))]
<1>4. /\ r \in Run /\ r.left = body[b].left /\ r.commit = body[b].commit
      /\ r.hosted = body[b].hosted /\ r.composed = body[b].composed /\ r.seen = Newest(Commit(b))
  BY <1>2, <1>3 DEF Run
<1>5. OnCourse(r)
  BY <1>2, <1>4 DEF OnCourse, In, Commit
<1>6. body' = [body EXCEPT ![b] = r]
  BY DEF ListChecks
<1> HIDE DEF r
<1>7. BodyTyped' /\ Alone(b) /\ body'[b] = r
  BY <1>4, <1>5, <1>6, BodyMoves
<1> QED BY <1>1, <1>4, <1>7

\* A run has set the check run, or lost the call.
LEMMA CheckMoves ==
  ASSUME BodyTyped, NEW b \in Bodies, WriteCheck(b) \/ CheckLost(b)
  PROVE  /\ BodyTyped' /\ Alone(b)
         /\ \E c, n : In(body[b], c, n) /\ PlaceOf(Head(body[b].left), c, n) /\ Went(b, c, n)
<1>1. Running(b) /\ Advance(b)
  BY DEF WriteCheck, CheckLost, Does
<1>2. PICK c, n : In(body[b], c, n) /\ PlaceOf(Head(body[b].left), c, n)
  BY <1>1, At
<1> QED BY <1>1, <1>2, AdvanceMoves

\* The gates send a run on, to another course, or to rest.
LEMMA AdmitMoves ==
  ASSUME BodyTyped, NEW b \in Bodies, Admit(b)
  PROVE  /\ BodyTyped' /\ Alone(b) /\ In(body[b], "deploy", 2)
         /\ Went(b, "deploy", 2) \/ Came(b, "refuse") \/ Came(b, "reject")
<1>1. In(body[b], "deploy", 2) /\ Running(b)
  BY PlaceIs DEF Admit, Does
<1>2. Advance(b) \/ Turn(b, "refuse") \/ Turn(b, "reject")
  BY DEF Admit
<1> QED BY <1>1, <1>2, AdvanceMoves, TurnMoves, Ends

\* A run has its row, or drops out as a duplicate.
LEMMA RowMoves ==
  ASSUME BodyTyped, NEW b \in Bodies, FindDeployment(b)
  PROVE  /\ BodyTyped' /\ Alone(b) /\ In(body[b], "deploy", 3)
         /\ Went(b, "deploy", 3) \/ body'[b] = IdleBody
<1>1. In(body[b], "deploy", 3) /\ Running(b)
  BY PlaceIs DEF FindDeployment, Does
<1>2. Advance(b) \/ body' = [body EXCEPT ![b] = IdleBody]
  BY DEF FindDeployment
<1> QED BY <1>1, <1>2, AdvanceMoves, IdleMoves

\* The workflows passed, failed, or are still awaited.
LEMMA WorkflowMoves ==
  ASSUME BodyTyped, NEW b \in Bodies, CheckWorkflows(b)
  PROVE  /\ BodyTyped' /\ Alone(b) /\ In(body[b], "deploy", 6)
         /\ Went(b, "deploy", 6) \/ Came(b, "recover") \/ body'[b] = IdleBody
<1>1. In(body[b], "deploy", 6) /\ Running(b)
  BY PlaceIs DEF CheckWorkflows, Does
<1>2. Advance(b) \/ Turn(b, "recover") \/ body' = [body EXCEPT ![b] = IdleBody]
  BY DEF CheckWorkflows
<1> QED BY <1>1, <1>2, AdvanceMoves, TurnMoves, IdleMoves, Ends

\* The machine, and the record of a success.
LEMMA PrepareMoves ==
  ASSUME BodyTyped, NEW b \in Bodies, Prepare(b)
  PROVE  /\ BodyTyped' /\ Alone(b)
         /\ \E n \in {11, 20} : In(body[b], "deploy", n) /\ (Went(b, "deploy", n) \/ Came(b, "recover"))
<1>1. PICK n \in {11, 20} : In(body[b], "deploy", n)
  BY PlaceIs DEF Prepare
<1>2. Running(b)
  BY DEF Prepare, Does
<1>3. Advance(b) \/ Turn(b, "recover")
  BY DEF Prepare
<1> QED BY <1>1, <1>2, <1>3, AdvanceMoves, TurnMoves, Ends

\* The machine is approved, rejected, or still awaits its approval.
LEMMA ApprovalMoves ==
  ASSUME BodyTyped, NEW b \in Bodies, CheckApproval(b)
  PROVE  /\ BodyTyped' /\ Alone(b) /\ In(body[b], "deploy", 8)
         /\ Went(b, "deploy", 8) \/ Came(b, "recover") \/ Came(b, "park")
<1>1. In(body[b], "deploy", 8) /\ Running(b)
  BY PlaceIs DEF CheckApproval, Does
<1>2. Advance(b) \/ Turn(b, "recover") \/ Turn(b, "park")
  BY DEF CheckApproval
<1> QED BY <1>1, <1>2, AdvanceMoves, TurnMoves, Ends

\* A run reports on its deployment.
LEMMA StatusMoves ==
  ASSUME BodyTyped, NEW b \in Bodies, PostStatus(b)
  PROVE  /\ BodyTyped' /\ Alone(b)
         /\ \E c, n : /\ In(body[b], c, n) /\ Went(b, c, n)
                      /\ \/ Arg(b) = "in_progress" /\ c = "deploy" /\ n = 9
                         \/ Arg(b) = "success" /\ c = "deploy" /\ n = 18
                         \/ Arg(b) = "failure" /\ c = "recover" /\ n = 3
<1>1. Running(b) /\ Advance(b) /\ Head(body[b].left).op = "status"
  BY DEF PostStatus, Does
<1>2. PICK c, n : In(body[b], c, n) /\ PlaceOf(Head(body[b].left), c, n)
  BY <1>1, At
<1>3. \/ Arg(b) = "in_progress" /\ c = "deploy" /\ n = 9
      \/ Arg(b) = "success" /\ c = "deploy" /\ n = 18
      \/ Arg(b) = "failure" /\ c = "recover" /\ n = 3
  BY <1>1, <1>2 DEF PlaceOf, Arg
<1> QED BY <1>1, <1>2, <1>3, AdvanceMoves

\* The last step of a run: it opens or closes the error issue.
LEMMA IssueMoves ==
  ASSUME BodyTyped, NEW b \in Bodies, ReportError(b) \/ CloseIssue(b)
  PROVE  /\ BodyTyped' /\ Alone(b) /\ body'[b] = IdleBody
         /\ ReportError(b) => In(body[b], "recover", 5) \/ In(body[b], "reject", 2)
         /\ CloseIssue(b) => In(body[b], "deploy", 21)
<1>1. /\ Advance(b)
      /\ ReportError(b) => In(body[b], "recover", 5) \/ In(body[b], "reject", 2)
      /\ CloseIssue(b) => In(body[b], "deploy", 21)
  BY PlaceIs DEF ReportError, CloseIssue
<1>2. CASE In(body[b], "deploy", 21)
  BY <1>1, <1>2, AdvanceMoves, Ends DEF Went
<1>3. CASE In(body[b], "recover", 5)
  BY <1>1, <1>3, AdvanceMoves, Ends DEF Went
<1>4. CASE In(body[b], "reject", 2)
  BY <1>1, <1>4, AdvanceMoves, Ends DEF Went
<1> QED BY <1>1, <1>2, <1>3, <1>4

\* A run has its outcome.
LEMMA SettleMoves ==
  ASSUME BodyTyped, NEW b \in Bodies, Settle(b)
  PROVE  /\ BodyTyped' /\ Alone(b)
         /\ \/ Does(b, "succeed") /\ In(body[b], "deploy", 17) /\ Went(b, "deploy", 17)
            \/ Does(b, "fail") /\ ~Does(b, "succeed") /\ In(body[b], "recover", 2) /\ Went(b, "recover", 2)
<1>1. Advance(b)
  BY DEF Settle
<1>2. CASE Does(b, "succeed")
  BY <1>1, <1>2, PlaceIs, AdvanceMoves
<1>3. CASE Does(b, "fail")
  <2>1. ~Does(b, "succeed")
    BY <1>3 DEF Does
  <2> QED BY <1>1, <1>3, <2>1, PlaceIs, AdvanceMoves
<1> QED BY <1>2, <1>3 DEF Settle

\* The Caddy host has the commit's file, or the run recovers.
LEMMA CaddyMoves ==
  ASSUME BodyTyped, NEW b \in Bodies, DeployCaddy(b)
  PROVE  /\ BodyTyped' /\ Alone(b) /\ In(body[b], "deploy", 16)
         /\ (Went(b, "deploy", 16) /\ caddy' = Commit(b)) \/ (Came(b, "recover") /\ Fault)
<1>1. In(body[b], "deploy", 16) /\ Running(b)
  BY PlaceIs DEF DeployCaddy, Does
<1>2. (Advance(b) /\ caddy' = Commit(b)) \/ (Turn(b, "recover") /\ Fault)
  BY DEF DeployCaddy
<1> QED BY <1>1, <1>2, AdvanceMoves, TurnMoves, Ends

\* Run b moves on and notes its deployment, or whether its containers are up.
LEMMA HostNoted ==
  ASSUME BodyTyped, NEW b \in Bodies, NEW c, NEW n, In(body[b], c, n), n # End(c), NEW h \in Nat,
         body' = [body EXCEPT ![b] = [Moved(body[b]) EXCEPT !.hosted = h]]
  PROVE  /\ BodyTyped' /\ Alone(b) /\ In(body'[b], c, n + 1)
         /\ body'[b].commit = body[b].commit /\ body'[b].hosted = h
         /\ body'[b].composed = body[b].composed /\ body'[b].seen = Unlisted
<1>1. body[b] \in Run /\ OnCourse(body[b]) /\ body[b] # IdleBody
  BY IdleTyped, InFacts DEF BodyTyped
<1> DEFINE m == Moved(body[b])
           r == [m EXCEPT !.hosted = h]
<1>2. /\ m \in Run /\ In(m, c, n + 1) /\ m.commit = body[b].commit /\ m.seen = Unlisted
      /\ m.composed = body[b].composed
  BY <1>1, MovedFacts
<1>3. body' = [body EXCEPT ![b] = r]
  OBVIOUS
<1> HIDE DEF m
<1>4. /\ r \in Run /\ r.left = m.left /\ r.commit = body[b].commit /\ r.hosted = h
      /\ r.composed = body[b].composed /\ r.seen = Unlisted
  BY <1>2 DEF Run
<1>5. In(r, c, n + 1) /\ OnCourse(r)
  BY <1>1, <1>2, <1>4 DEF In, OnCourse
<1> HIDE DEF r
<1> QED BY <1>3, <1>4, <1>5, BodyMoves

\* A run moves on and notes whether its containers are up.
LEMMA ComposedNoted ==
  ASSUME BodyTyped, NEW b \in Bodies, NEW c, NEW n, In(body[b], c, n), n # End(c),
         NEW up \in BOOLEAN,
         body' = [body EXCEPT ![b] = [Moved(body[b]) EXCEPT !.composed = up]]
  PROVE  /\ BodyTyped' /\ Alone(b) /\ In(body'[b], c, n + 1)
         /\ body'[b].commit = body[b].commit /\ body'[b].hosted = body[b].hosted
         /\ body'[b].composed = up /\ body'[b].seen = Unlisted
<1>1. body[b] \in Run /\ OnCourse(body[b]) /\ body[b] # IdleBody
  BY IdleTyped, InFacts DEF BodyTyped
<1> DEFINE m == Moved(body[b])
           r == [m EXCEPT !.composed = up]
<1>2. /\ m \in Run /\ In(m, c, n + 1) /\ m.commit = body[b].commit /\ m.seen = Unlisted
      /\ m.hosted = body[b].hosted
  BY <1>1, MovedFacts
<1>3. body' = [body EXCEPT ![b] = r]
  OBVIOUS
<1> HIDE DEF m
<1>4. /\ r \in Run /\ r.left = m.left /\ r.commit = body[b].commit /\ r.hosted = body[b].hosted
      /\ r.composed = up /\ r.seen = Unlisted
  BY <1>2 DEF Run
<1>5. In(r, c, n + 1) /\ OnCourse(r)
  BY <1>1, <1>2, <1>4 DEF In, OnCourse
<1> HIDE DEF r
<1> QED BY <1>3, <1>4, <1>5, BodyMoves

\* A run has created its deployment, or goes on without one.
LEMMA HostMoves ==
  ASSUME BodyTyped, DataTyped, NEW b \in Bodies, CreateHosted(b)
  PROVE  /\ BodyTyped' /\ Alone(b) /\ In(body[b], "deploy", 4) /\ In(body'[b], "deploy", 5)
         /\ body'[b].commit = body[b].commit /\ body'[b].composed = body[b].composed
         /\ body'[b].seen = Unlisted
         /\ \/ hosted' = Append(hosted, "pending") /\ body'[b].hosted = Len(hosted) + 1
            \/ /\ hosted' \in {hosted, Append(hosted, "pending")}
               /\ body'[b].hosted = body[b].hosted
<1>1. In(body[b], "deploy", 4) /\ Running(b) /\ 4 # End("deploy")
  BY PlaceIs, Ends DEF CreateHosted, Does
<1>2. CASE Advance(b) /\ hosted' \in {hosted, Append(hosted, "pending")}
  BY <1>1, <1>2, AdvanceMoves DEF Went, Same
<1>3. CASE /\ hosted' = Append(hosted, "pending")
           /\ body' = [body EXCEPT ![b] = [Moved(body[b]) EXCEPT !.hosted = Len(hosted) + 1]]
  <2>1. PICK h \in Nat : h = Len(hosted) + 1
    BY DEF DataTyped
  <2>2. body' = [body EXCEPT ![b] = [Moved(body[b]) EXCEPT !.hosted = h]]
    BY <1>3, <2>1
  <2>3. /\ BodyTyped' /\ Alone(b) /\ In(body'[b], "deploy", 4 + 1)
        /\ body'[b].commit = body[b].commit /\ body'[b].hosted = h
        /\ body'[b].composed = body[b].composed /\ body'[b].seen = Unlisted
    BY <1>1, <2>2, HostNoted
  <2> QED BY <1>1, <1>3, <2>1, <2>3
<1> QED BY <1>2, <1>3 DEF CreateHosted

\* The containers are the commit's, or the run recovers.
LEMMA ComposeMoves ==
  ASSUME BodyTyped, NEW b \in Bodies, DeployCompose(b)
  PROVE  /\ BodyTyped' /\ Alone(b) /\ In(body[b], "deploy", 13)
         /\ body'[b].commit = body[b].commit /\ body'[b].hosted = body[b].hosted
         /\ body'[b].seen = Unlisted
         /\ \/ /\ In(body'[b], "deploy", 14) /\ body'[b].composed = TRUE /\ vm' = Commit(b)
            \/ Came(b, "recover")
<1>1. In(body[b], "deploy", 13) /\ Running(b) /\ 13 # End("deploy")
  BY PlaceIs, Ends DEF DeployCompose, Does
<1>2. CASE Turn(b, "recover")
  BY <1>1, <1>2, TurnMoves, Ends DEF Came, Same
<1>3. CASE vm' = Commit(b) /\ body' = [body EXCEPT ![b] = [Moved(body[b]) EXCEPT !.composed = TRUE]]
  <2>1. /\ BodyTyped' /\ Alone(b) /\ In(body'[b], "deploy", 13 + 1)
        /\ body'[b].commit = body[b].commit /\ body'[b].hosted = body[b].hosted
        /\ body'[b].composed = TRUE /\ body'[b].seen = Unlisted
    BY <1>1, <1>3, ComposedNoted
  <2> QED BY <1>1, <1>3, <2>1
<1> QED BY <1>2, <1>3 DEF DeployCompose

\* The containers of a run that recovers.
LEMMA CompensateMoves ==
  ASSUME BodyTyped, NEW b \in Bodies, Compensate(b)
  PROVE  /\ BodyTyped' /\ Alone(b) /\ In(body[b], "recover", 1) /\ In(body'[b], "recover", 2)
         /\ body'[b].commit = body[b].commit /\ body'[b].hosted = body[b].hosted
         /\ body'[b].seen = Unlisted
         /\ body'[b].composed => vm' = NoCommit
<1>1. In(body[b], "recover", 1) /\ Running(b) /\ 1 # End("recover")
  BY PlaceIs, Ends DEF Compensate, Does
<1>2. CASE Advance(b) /\ (body[b].composed => vm' = NoCommit)
  BY <1>1, <1>2, AdvanceMoves DEF Went, Same
<1>3. CASE body' = [body EXCEPT ![b] = [Moved(body[b]) EXCEPT !.composed = FALSE]]
  <2>1. /\ BodyTyped' /\ Alone(b) /\ In(body'[b], "recover", 1 + 1)
        /\ body'[b].commit = body[b].commit /\ body'[b].hosted = body[b].hosted
        /\ body'[b].composed = FALSE /\ body'[b].seen = Unlisted
    BY <1>1, <1>3, ComposedNoted
  <2> QED BY <1>1, <2>1
<1> QED BY <1>2, <1>3 DEF Compensate

\* Without a caddyfile the steps on the Caddy host are passed over.
LEMMA CaddyfileMoves ==
  ASSUME BodyTyped, NEW b \in Bodies, FetchCaddyfile(b)
  PROVE  /\ BodyTyped' /\ Alone(b) /\ In(body[b], "deploy", 14) /\ Same(b)
         /\ In(body'[b], "deploy", IF Commit(b) \in HasCaddyfile THEN 15 ELSE 17)
<1>1. In(body[b], "deploy", 14) /\ Running(b) /\ End("deploy") = 21
  BY PlaceIs, Ends DEF FetchCaddyfile, Does
<1>2. body[b] \in Run /\ OnCourse(body[b])
  BY <1>1, At
<1> DEFINE m == Moved(body[b])
           k == Moved(m)
           l == Moved(k)
<1>3. /\ m \in Run /\ OnCourse(m) /\ In(m, "deploy", 15) /\ m.commit = body[b].commit
      /\ m.hosted = body[b].hosted /\ m.composed = body[b].composed /\ m.seen = Unlisted
  BY <1>1, <1>2, MovedFacts
<1> HIDE DEF m
<1>4. /\ k \in Run /\ OnCourse(k) /\ In(k, "deploy", 16) /\ k.commit = body[b].commit
      /\ k.hosted = body[b].hosted /\ k.composed = body[b].composed /\ k.seen = Unlisted
  BY <1>1, <1>3, MovedFacts
<1> HIDE DEF k
<1>5. /\ l \in Run /\ OnCourse(l) /\ In(l, "deploy", 17) /\ l.commit = body[b].commit
      /\ l.hosted = body[b].hosted /\ l.composed = body[b].composed /\ l.seen = Unlisted
  BY <1>1, <1>4, MovedFacts
<1> HIDE DEF l
<1>6. body' = [body EXCEPT ![b] = IF Commit(b) \in HasCaddyfile THEN m ELSE l]
  BY DEF FetchCaddyfile, m, k, l
<1>7. CASE Commit(b) \in HasCaddyfile
  <2>1. body' = [body EXCEPT ![b] = m]
    BY <1>6, <1>7
  <2>2. BodyTyped' /\ Alone(b) /\ body'[b] = m
    BY <1>3, <2>1, BodyMoves
  <2> QED BY <1>1, <1>3, <1>7, <2>2 DEF Same
<1>8. CASE Commit(b) \notin HasCaddyfile
  <2>1. body' = [body EXCEPT ![b] = l]
    BY <1>6, <1>8
  <2>2. BodyTyped' /\ Alone(b) /\ body'[b] = l
    BY <1>5, <2>1, BodyMoves
  <2> QED BY <1>1, <1>5, <1>8, <2>2 DEF Same
<1> QED BY <1>7, <1>8

-----------------------------------------------------------------------------
(* The types.                                                               *)

\* What a run takes for its deployment is one.
HostKnown == \A b \in Bodies : body[b].hosted <= Len(hosted)

BasicInv == DataTyped /\ BodyTyped /\ HostKnown

\* A run that dies is at rest.
LEMMA DieMoves ==
  ASSUME BodyTyped, NEW b \in Bodies, Die(b)
  PROVE  BodyTyped' /\ Alone(b) /\ Running(b) /\ body'[b] = IdleBody
BY IdleMoves DEF Die

\* A step of a run moves that run only, and keeps its deployment or drops it.
LEMMA RunMoves ==
  ASSUME BasicInv, NEW b \in Bodies, RunStep(b)
  PROVE  /\ BodyTyped' /\ Alone(b) /\ Running(b)
         /\ CreateHosted(b) \/ body'[b].hosted \in {0, body[b].hosted}
<1> USE DEF BasicInv
<1>1. Running(b)
  BY DEF RunStep, ListChecks, WriteCheck, CheckLost, Admit, FindDeployment, CreateHosted,
    CheckWorkflows, Prepare, CheckApproval, PostStatus, ReportError, CloseIssue, DeployCompose,
    FetchCaddyfile, DeployCaddy, Compensate, Settle, Die, Does
<1>2. \A c, n : /\ Went(b, c, n) => body'[b].hosted \in {0, body[b].hosted}
                /\ Came(b, c) => body'[b].hosted \in {0, body[b].hosted}
  BY IdleTyped DEF Went, Came, Same
<1>3. IdleBody.hosted = 0
  BY IdleTyped
<1>4. CASE ListChecks(b) \/ WriteCheck(b) \/ CheckLost(b) \/ Admit(b) \/ FindDeployment(b)
           \/ CreateHosted(b) \/ CheckWorkflows(b)
  BY <1>1, <1>2, <1>3, <1>4, ListMoves, CheckMoves, AdmitMoves, RowMoves, HostMoves,
     WorkflowMoves
<1>5. CASE Prepare(b) \/ CheckApproval(b) \/ PostStatus(b) \/ ReportError(b) \/ CloseIssue(b)
  BY <1>1, <1>2, <1>3, <1>5, PrepareMoves, ApprovalMoves, StatusMoves, IssueMoves
<1>6. CASE DeployCompose(b) \/ FetchCaddyfile(b) \/ DeployCaddy(b) \/ Compensate(b) \/ Settle(b)
           \/ Die(b)
  BY <1>1, <1>2, <1>3, <1>6, ComposeMoves, CaddyfileMoves, CaddyMoves, CompensateMoves,
    SettleMoves, DieMoves DEF Same
<1> QED BY <1>4, <1>5, <1>6 DEF RunStep

\* Writing one place of a sequence.
LEMMA Written ==
  ASSUME NEW S, NEW s \in Seq(S), NEW k, NEW v \in S
  PROVE  /\ [s EXCEPT ![k] = v] \in Seq(S) /\ Len([s EXCEPT ![k] = v]) = Len(s)
         /\ \A i \in 1..Len(s) : [s EXCEPT ![k] = v][i] = IF i = k THEN v ELSE s[i]
<1> DEFINE w == [s EXCEPT ![k] = v]
<1>0. s \in [1..Len(s) -> S] /\ Len(s) \in Nat
  OBVIOUS
<1>1. w = [i \in 1..Len(s) |-> IF i = k THEN v ELSE s[i]]
  BY <1>0
<1>2. w \in [1..Len(s) -> S] /\ Len(s) \in Nat
  BY <1>0
<1>3. w \in Seq(S) /\ DOMAIN w = 1..Len(s)
  BY <1>2
<1>4. Len(w) = Len(s)
  BY <1>2, <1>3
<1> QED BY <1>1, <1>3, <1>4

\* A step leaves check runs with a state each.
LEMMA ChecksTyped ==
  ASSUME BasicInv, NEW b \in Bodies, WriteCheck(b) \/ CheckLost(b)
  PROVE  checks' \in [Commits -> Seq(CheckState)]
<1>1. Running(b) /\ Head(body[b].left).op = "check"
  BY DEF WriteCheck, CheckLost, Does
<1>2. Commit(b) \in Commits /\ body[b] \in Run
  BY <1>1, At DEF BasicInv
<1>3. PICK c, n : In(body[b], c, n) /\ PlaceOf(Head(body[b].left), c, n)
  BY <1>1, At DEF BasicInv
<1>4. Arg(b) \in CheckState
  BY <1>1, <1>3 DEF PlaceOf, Arg, CheckState
<1>5. checks \in [Commits -> Seq(CheckState)]
  BY DEF BasicInv, DataTyped
<1>6. [checks EXCEPT ![Commit(b)] = Append(checks[Commit(b)], Arg(b))] \in [Commits -> Seq(CheckState)]
  BY <1>2, <1>4, <1>5
<1>7. CASE WriteCheck(b)
  <2>1. PICK k \in Nat : k = body[b].seen \/ body[b].seen = Unlisted
    BY <1>2 DEF Run
  <2>2. k = body[b].seen
    BY <1>7, <2>1 DEF WriteCheck
  <2>3. [checks[Commit(b)] EXCEPT ![k] = Arg(b)] \in Seq(CheckState)
    BY <1>2, <1>4, <1>5, Written
  <2>4. [checks EXCEPT ![Commit(b)][k] = Arg(b)] \in [Commits -> Seq(CheckState)]
    BY <1>2, <1>5, <2>3
  <2> QED BY <1>6, <1>7, <2>2, <2>4 DEF WriteCheck
<1>8. CASE CheckLost(b)
  BY <1>5, <1>6, <1>8 DEF CheckLost
<1> QED BY <1>7, <1>8

\* A step leaves deployments with a state each, no fewer than there were.
LEMMA HostedTyped ==
  ASSUME BasicInv, NEW b \in Bodies, PostStatus(b)
  PROVE  /\ hosted' \in Seq(HostedState) /\ Len(hosted') = Len(hosted)
         /\ Arg(b) \in {"in_progress", "success", "failure"}
<1>1. Arg(b) \in {"in_progress", "success", "failure"}
  BY StatusMoves DEF BasicInv
<1>2. body[b].hosted \in Nat /\ hosted \in Seq(HostedState)
  BY DEF BasicInv, DataTyped, BodyTyped, Run
<1>3. hosted' = hosted \/ hosted' = [hosted EXCEPT ![body[b].hosted] = Arg(b)]
  BY DEF PostStatus
<1>4. Arg(b) \in HostedState
  BY <1>1 DEF HostedState
<1>5. /\ [hosted EXCEPT ![body[b].hosted] = Arg(b)] \in Seq(HostedState)
      /\ Len([hosted EXCEPT ![body[b].hosted] = Arg(b)]) = Len(hosted)
  BY <1>2, <1>4, Written
<1> QED BY <1>1, <1>2, <1>3, <1>5

\* The basic facts hold at first.
LEMMA BasicInit == Init => BasicInv
<1> SUFFICES ASSUME Init PROVE BasicInv
  OBVIOUS
<1>1. DataTyped
  <2>1. <<>> \in Seq(HostedState) /\ <<>> \in Seq(CheckState) /\ DOMAIN <<>> = {}
    OBVIOUS
  <2>2. row \in [Commits -> Status] /\ checks \in [Commits -> Seq(CheckState)]
    BY <2>1 DEF Init, Status
  <2>3. vm \in Known /\ caddy \in Known
    BY DEF Init, Known
  <2> QED BY <2>1, <2>2, <2>3 DEF Init, DataTyped
<1>2. BodyTyped /\ HostKnown
  BY IdleTyped DEF Init, BodyTyped, HostKnown
<1> QED BY <1>1, <1>2 DEF BasicInv

\* A run takes for its deployment one there is.
LEMMA HostKnownStep ==
  ASSUME BasicInv, NEW b \in Bodies, RunStep(b)
  PROVE  HostKnown'
<1>1. Alone(b) /\ (CreateHosted(b) \/ body'[b].hosted \in {0, body[b].hosted})
  BY RunMoves
<1>2. hosted \in Seq(HostedState) /\ \A d \in Bodies : body[d].hosted \in Nat /\ body[d].hosted <= Len(hosted)
  BY DEF BasicInv, DataTyped, BodyTyped, Run, HostKnown
<1>3. Len(hosted) <= Len(hosted') /\ Len(hosted') \in Nat
  <2>1. CASE PostStatus(b)
    BY <1>2, <2>1, HostedTyped
  <2>2. CASE CreateHosted(b)
    <3>1. hosted' \in {hosted, Append(hosted, "pending")}
      BY <2>2 DEF CreateHosted
    <3>2. Len(Append(hosted, "pending")) = Len(hosted) + 1
      BY <1>2
    <3> QED BY <1>2, <3>1, <3>2
  <2>3. CASE ~PostStatus(b) /\ ~CreateHosted(b)
    <3>1. hosted' = hosted
      BY <2>3 DEF RunStep, ListChecks, WriteCheck, CheckLost, Admit, FindDeployment,
        CheckWorkflows, Prepare, CheckApproval, ReportError, CloseIssue, DeployCompose,
        FetchCaddyfile, DeployCaddy, Compensate, Settle, Die, github
    <3> QED BY <1>2, <3>1
  <2> QED BY <2>1, <2>2, <2>3
<1>4. body'[b].hosted <= Len(hosted')
  <2>1. CASE CreateHosted(b)
    <3>1. body'[b].hosted = body[b].hosted \/ (hosted' = Append(hosted, "pending") /\ body'[b].hosted = Len(hosted) + 1)
      BY <2>1, HostMoves DEF BasicInv
    <3>2. Len(Append(hosted, "pending")) = Len(hosted) + 1
      BY <1>2
    <3> QED BY <1>2, <1>3, <3>1, <3>2
  <2>2. CASE body'[b].hosted \in {0, body[b].hosted}
    BY <1>2, <1>3, <2>2
  <2> QED BY <1>1, <2>1, <2>2
<1> QED BY <1>1, <1>2, <1>3, <1>4 DEF HostKnown, Alone

\* Every step keeps the basic facts.
LEMMA BasicStep == BasicInv /\ [Next]_vars => BasicInv'
<1> SUFFICES ASSUME BasicInv, [Next]_vars PROVE BasicInv'
  OBVIOUS
<1> USE DEF BasicInv
<1>1. CASE UNCHANGED vars
  BY <1>1 DEF vars, github, world, history, DataTyped, BodyTyped, OnCourse, In, HostKnown
<1>2. ASSUME NEW b \in Bodies, NEW c \in Commits, Start(b, c)
      PROVE  BasicInv'
  <2>1. BodyTyped' /\ Alone(b) /\ body'[b].hosted = 0
    BY <1>2, StartMoves
  <2>2. DataTyped'
    BY <1>2 DEF Start, DataTyped, github, world
  <2>3. HostKnown'
    BY <1>2, <2>1 DEF Start, HostKnown, Alone, github, DataTyped
  <2> QED BY <2>1, <2>2, <2>3
<1>3. ASSUME NEW b \in Bodies, RunStep(b)
      PROVE  BasicInv'
  <2>1. BodyTyped' /\ HostKnown' /\ Commit(b) \in Commits /\ body[b].hosted \in 0..Len(hosted)
    <3>1. BodyTyped' /\ HostKnown' /\ Running(b)
      BY <1>3, RunMoves, HostKnownStep
    <3> QED BY <3>1, At DEF BodyTyped, Run, HostKnown, DataTyped
  <2>2. CASE ListChecks(b) \/ FetchCaddyfile(b)
    BY <2>1, <2>2 DEF ListChecks, FetchCaddyfile, DataTyped, github, world, history
  <2>3. CASE Admit(b) \/ CheckWorkflows(b) \/ Prepare(b) \/ CheckApproval(b)
    BY <2>1, <2>3 DEF Admit, CheckWorkflows, Prepare, CheckApproval, Fault, DataTyped,
       github, world, history
  <2>4. CASE WriteCheck(b) \/ CheckLost(b)
    <3>1. checks' \in [Commits -> Seq(CheckState)]
      BY <2>4, ChecksTyped
    <3>2. faults' \in Nat /\ doubled' \subseteq Commits
      BY <2>1, <2>4 DEF WriteCheck, CheckLost, Fault, DataTyped, history
    <3> QED BY <2>1, <2>4, <3>1, <3>2 DEF WriteCheck, CheckLost, DataTyped, world, history
  <2>5. CASE FindDeployment(b)
    <3>1. row' \in [Commits -> Status]
      BY <2>1, <2>5 DEF FindDeployment, DataTyped, Status
    <3> QED BY <2>1, <2>5, <3>1 DEF FindDeployment, DataTyped, github, world, history
  <2>6. CASE CreateHosted(b)
    <3>1. hosted' \in {hosted, Append(hosted, "pending")} /\ faults' \in Nat
      BY <2>6 DEF CreateHosted, Fault, DataTyped
    <3>2. hosted' \in Seq(HostedState) /\ DOMAIN hosted \subseteq DOMAIN hosted'
      <4>1. "pending" \in HostedState /\ hosted \in Seq(HostedState)
        BY DEF HostedState, DataTyped
      <4>2. /\ Append(hosted, "pending") \in Seq(HostedState)
            /\ DOMAIN Append(hosted, "pending") = 1..Len(hosted) + 1
            /\ DOMAIN hosted = 1..Len(hosted) /\ Len(hosted) \in Nat
        BY <4>1
      <4> QED BY <3>1, <4>1, <4>2
    <3> QED BY <2>1, <2>6, <3>1, <3>2 DEF CreateHosted, DataTyped, world, history
  <2>7. CASE PostStatus(b)
    <3>1. hosted' \in Seq(HostedState) /\ Len(hosted') = Len(hosted)
      BY <2>7, HostedTyped
    <3>2. DOMAIN hosted' = DOMAIN hosted
      BY <3>1 DEF DataTyped
    <3>3. body[b].hosted # 0 => body[b].hosted \in DOMAIN hosted
      BY <2>1 DEF DataTyped
    <3> QED BY <2>1, <2>7, <3>1, <3>2, <3>3 DEF PostStatus, Fault, DataTyped, world, history
  <2>8. CASE ReportError(b) \/ CloseIssue(b)
    <3>1. issues' \in Nat
      BY <2>8 DEF ReportError, CloseIssue, DataTyped
    <3>2. faults' \in Nat
      BY <2>8 DEF ReportError, CloseIssue, Fault, DataTyped
    <3>3. overlapped' \in BOOLEAN
      BY <2>8 DEF ReportError, CloseIssue, DataTyped
    <3> QED BY <2>1, <2>8, <3>1, <3>2, <3>3 DEF ReportError, CloseIssue, DataTyped, world,
        history
  <2>9. CASE DeployCompose(b) \/ DeployCaddy(b) \/ Compensate(b)
    <3>1. vm' \in Known /\ caddy' \in Known /\ faults' \in Nat
      BY <2>1, <2>9 DEF DeployCompose, DeployCaddy, Compensate, Fault, DataTyped, Known
    <3> QED BY <2>1, <2>9, <3>1 DEF DeployCompose, DeployCaddy, Compensate, DataTyped,
        github, history
  <2>10. CASE Settle(b)
    <3>1. row' \in [Commits -> Status]
      BY <2>1, <2>10 DEF Settle, DataTyped, Status
    <3> QED BY <2>1, <2>10, <3>1 DEF Settle, DataTyped, github, world
  <2>11. CASE Die(b)
    <3>1. faults' \in Nat
      BY <2>11 DEF Die, Fault, DataTyped
    <3>2. doubled' \subseteq Commits /\ missed' \subseteq DOMAIN hosted
      BY <2>1, <2>11 DEF Die, DataTyped
    <3> QED BY <2>1, <2>11, <3>1, <3>2 DEF Die, DataTyped, github, world
  <2> QED BY <1>3, <2>2, <2>3, <2>4, <2>5, <2>6, <2>7, <2>8, <2>9, <2>10, <2>11 DEF RunStep
<1> QED BY <1>1, <1>2, <1>3 DEF Next

\* A run is at one place, up to the end that two courses share.
LEMMA OnePlace ==
  ASSUME NEW r, NEW c, NEW n, NEW d, NEW m, In(r, c, n), In(r, d, m)
  PROVE  \/ c = d /\ n = m
         \/ c = "recover" /\ n \in {4, 5} /\ d = "reject"
         \/ d = "recover" /\ m \in {4, 5} /\ c = "reject"
<1> DEFINE s == Head(r.left)
<1>1. c \in CourseNames /\ n \in 1..End(c) /\ d \in CourseNames /\ m \in 1..End(d)
  BY DEF In
<1>2. s = Courses[c][n] /\ PlaceOf(s, c, n)
  BY <1>1, InFacts, StepPlaces
<1>3. PlaceOf(s, d, m)
  BY <1>1, InFacts, StepPlaces
<1>4. End(c) - n = End(d) - m /\ n \in Nat /\ m \in Nat /\ End(c) \in Nat /\ End(d) \in Nat
  <2>1. Len(r.left) = End(c) - n + 1 /\ End(c) \in Nat /\ n \in Nat
    BY InFacts
  <2>2. Len(r.left) = End(d) - m + 1 /\ End(d) \in Nat /\ m \in Nat
    BY InFacts
  <2> QED BY <2>1, <2>2
<1>5. s \in StepSet
  BY <1>1, <1>2, CourseSeq DEF End
<1> HIDE DEF s
<1>6. CASE s.op = "check"
  BY <1>2, <1>3, <1>4, <1>6, Ends DEF PlaceOf
<1>7. CASE s.op = "status"
  BY <1>2, <1>3, <1>7 DEF PlaceOf
<1>8. CASE s.op = "report"
  BY <1>2, <1>3, <1>8 DEF PlaceOf
<1>9. CASE s.op \notin {"check", "status", "report"}
  <2>1. s.op \in {"admit", "row", "host", "workflows", "approval", "vm", "compose", "caddyfile",
                  "caddy", "succeed", "audit", "close", "compensate", "fail"}
    BY <1>5, <1>9 DEF StepSet
  <2>2. c = d /\ n = m
    BY <1>2, <1>3, <2>1 DEF PlaceOf
  <2> QED BY <2>2
<1> QED BY <1>6, <1>7, <1>8, <1>9

-----------------------------------------------------------------------------
(* GitHub's deployments.                                                    *)

\* A run between the two statuses of its deployment.
Between(c, n) == (c = "deploy" /\ n \in 10..18) \/ (c = "recover" /\ n \in 1..3)
Finishing(r) == \E c \in CourseNames : \E n \in 1..End(c) : In(r, c, n) /\ Between(c, n)

\* No two runs have the same deployment, and what GitHub shows in progress
\* belongs to a run between its two statuses.
HostInv ==
  /\ \A b, d \in Bodies : body[b].hosted = body[d].hosted /\ body[b].hosted # 0 => b = d
  /\ \A g \in DOMAIN hosted : hosted[g] = "in_progress" =>
       g \in missed \/ \E b \in Bodies : body[b].hosted = g /\ Finishing(body[b])

\* A run between its two statuses, told by its place.
LEMMA FinishingAt ==
  ASSUME NEW r, NEW c, NEW n, In(r, c, n)
  PROVE  Finishing(r) <=> Between(c, n)
<1>1. c \in CourseNames /\ n \in 1..End(c)
  BY DEF In
<1>2. ASSUME Finishing(r) PROVE Between(c, n)
  <2>1. PICK d, m : In(r, d, m) /\ Between(d, m)
    BY <1>2 DEF Finishing
  <2>2. c = d /\ n = m
    BY <2>1, OnePlace DEF Between
  <2> QED BY <2>1, <2>2
<1> QED BY <1>1, <1>2 DEF Finishing

\* A run that was between the statuses stays there, or drops out with its
\* deployment missed.
LEMMA HostKept ==
  ASSUME BasicInv, HostInv, NEW b \in Bodies, Alone(b), hosted' = hosted, missed \subseteq missed',
         body'[b].hosted \in {0, body[b].hosted},
         Finishing(body[b]) /\ body[b].hosted # 0 =>
           \/ body[b].hosted \in missed'
           \/ Finishing(body'[b]) /\ body'[b].hosted = body[b].hosted
  PROVE  HostInv'
<1>1. ASSUME NEW d \in Bodies, NEW e \in Bodies, body'[d].hosted = body'[e].hosted, body'[d].hosted # 0
      PROVE  d = e
  <2>1. body'[d].hosted = body[d].hosted /\ body'[e].hosted = body[e].hosted
    BY <1>1 DEF Alone
  <2> QED BY <1>1, <2>1 DEF HostInv
<1>2. ASSUME NEW g \in DOMAIN hosted, hosted[g] = "in_progress", g \notin missed'
      PROVE  \E d \in Bodies : body'[d].hosted = g /\ Finishing(body'[d])
  <2>1. PICK d \in Bodies : body[d].hosted = g /\ Finishing(body[d])
    BY <1>2 DEF HostInv
  <2>2. g # 0
    BY DEF BasicInv, DataTyped
  <2> QED BY <1>2, <2>1, <2>2 DEF Alone
<1> QED BY <1>1, <1>2 DEF HostInv, Finishing, In

\* Nothing is in progress at first.
LEMMA HostInit == Init => HostInv
BY IdleTyped DEF Init, HostInv

\* A status is posted: in progress when the run comes between the two, the
\* outcome when it leaves.
LEMMA StatusKept ==
  ASSUME BasicInv, HostInv, NEW b \in Bodies, PostStatus(b)
  PROVE  HostInv'
<1> DEFINE h == body[b].hosted
<1>1. /\ Alone(b) /\ body[b].hosted \in Nat /\ hosted \in Seq(HostedState)
      /\ h # 0 => h \in DOMAIN hosted
  BY StatusMoves DEF BasicInv, DataTyped, BodyTyped, Run, HostKnown
<1>2. PICK c, n : /\ In(body[b], c, n) /\ Went(b, c, n)
                  /\ \/ Arg(b) = "in_progress" /\ c = "deploy" /\ n = 9
                     \/ Arg(b) = "success" /\ c = "deploy" /\ n = 18
                     \/ Arg(b) = "failure" /\ c = "recover" /\ n = 3
  BY StatusMoves DEF BasicInv
<1>3. In(body'[b], c, n + 1) /\ body'[b].hosted = h
  BY <1>2, Ends DEF Went, Same
<1>4. Arg(b) = "in_progress" => Finishing(body'[b])
  BY <1>2, <1>3, FinishingAt DEF Between
<1>5. CASE UNCHANGED hosted /\ missed' = missed \cup {h} /\ h # 0
  BY <1>1, <1>3, <1>5, HostKept
<1>6. CASE h = 0 /\ UNCHANGED <<hosted, missed>>
  BY <1>1, <1>3, <1>6, HostKept
<1>7. CASE h # 0 /\ hosted' = [hosted EXCEPT ![h] = Arg(b)] /\ UNCHANGED missed
  <2>1. ASSUME NEW d \in Bodies, NEW e \in Bodies, body'[d].hosted = body'[e].hosted, body'[d].hosted # 0
        PROVE  d = e
    <3>1. body'[d].hosted = body[d].hosted /\ body'[e].hosted = body[e].hosted
      BY <1>1, <1>3 DEF Alone
    <3> QED BY <2>1, <3>1 DEF HostInv
  <2>2. ASSUME NEW g \in DOMAIN hosted', hosted'[g] = "in_progress", g \notin missed'
        PROVE  \E d \in Bodies : body'[d].hosted = g /\ Finishing(body'[d])
    <3>1. CASE g = h
      <4>1. hosted'[g] = Arg(b)
        BY <1>7, <2>2, <3>1
      <4> QED BY <1>3, <1>4, <2>2, <3>1, <4>1
    <3>2. CASE g # h
      <4>1. g \in DOMAIN hosted /\ hosted[g] = "in_progress" /\ g \notin missed
        BY <1>7, <2>2, <3>2
      <4>2. PICK d \in Bodies : body[d].hosted = g /\ Finishing(body[d])
        BY <4>1 DEF HostInv
      <4>3. body'[d] = body[d]
        BY <1>1, <3>2, <4>2 DEF Alone
      <4> QED BY <4>2, <4>3
    <3> QED BY <3>1, <3>2
  <2> QED BY <2>1, <2>2 DEF HostInv, Finishing, In
<1> QED BY <1>5, <1>6, <1>7 DEF PostStatus

\* A deployment is created that no other run has.
LEMMA CreateKept ==
  ASSUME BasicInv, HostInv, NEW b \in Bodies, CreateHosted(b)
  PROVE  HostInv'
<1>1. /\ Alone(b) /\ In(body[b], "deploy", 4) /\ UNCHANGED missed
      /\ \/ hosted' = Append(hosted, "pending") /\ body'[b].hosted = Len(hosted) + 1
         \/ /\ hosted' \in {hosted, Append(hosted, "pending")}
            /\ body'[b].hosted = body[b].hosted
  BY HostMoves DEF BasicInv, CreateHosted, history
<1>2. /\ hosted \in Seq(HostedState) /\ Len(hosted) \in Nat /\ DOMAIN hosted = 1..Len(hosted)
      /\ \A d \in Bodies : body[d].hosted \in Nat /\ body[d].hosted <= Len(hosted)
  BY DEF BasicInv, DataTyped, BodyTyped, Run, HostKnown
<1>3. /\ Len(Append(hosted, "pending")) = Len(hosted) + 1
      /\ DOMAIN Append(hosted, "pending") = 1..Len(hosted) + 1
      /\ Append(hosted, "pending")[Len(hosted) + 1] = "pending"
      /\ \A g \in 1..Len(hosted) : Append(hosted, "pending")[g] = hosted[g]
  BY <1>2
<1>4. ~Finishing(body[b])
  BY <1>1, FinishingAt DEF Between
<1>5. ASSUME NEW d \in Bodies, NEW e \in Bodies, body'[d].hosted = body'[e].hosted, body'[d].hosted # 0
      PROVE  d = e
  <2>1. \A f \in Bodies : body'[f].hosted = body[f].hosted \/ (f = b /\ body'[f].hosted = Len(hosted) + 1)
    BY <1>1 DEF Alone
  <2> QED BY <1>2, <1>5, <2>1 DEF HostInv
<1>6. ASSUME NEW g \in DOMAIN hosted', hosted'[g] = "in_progress", g \notin missed'
      PROVE  \E d \in Bodies : body'[d].hosted = g /\ Finishing(body'[d])
  <2>1. g \in DOMAIN hosted /\ hosted[g] = "in_progress" /\ g \notin missed
    BY <1>1, <1>2, <1>3, <1>6
  <2>2. PICK d \in Bodies : body[d].hosted = g /\ Finishing(body[d])
    BY <2>1 DEF HostInv
  <2>3. body'[d] = body[d]
    BY <1>1, <1>4, <2>2 DEF Alone
  <2> QED BY <2>2, <2>3
<1> QED BY <1>5, <1>6 DEF HostInv, Finishing, In

\* Every step keeps HostInv.
LEMMA HostStep == BasicInv /\ HostInv /\ [Next]_vars => HostInv'
<1> SUFFICES ASSUME BasicInv, HostInv, [Next]_vars PROVE HostInv'
  OBVIOUS
<1> USE DEF BasicInv
<1>1. CASE UNCHANGED vars
  BY <1>1 DEF vars, github, history, HostInv, Finishing, In
<1>2. ASSUME NEW b \in Bodies, NEW c \in Commits, Start(b, c)
      PROVE  HostInv'
  <2>1. Alone(b) /\ body[b] = IdleBody /\ body'[b].hosted = 0
    BY <1>2, StartMoves
  <2>2. body[b].hosted = 0
    BY <2>1, IdleTyped
  <2> QED BY <1>2, <2>1, <2>2, HostKept DEF Start, github
<1>3. ASSUME NEW b \in Bodies, RunStep(b)
      PROVE  HostInv'
  <2>1. Alone(b) /\ Running(b) /\ (CreateHosted(b) \/ body'[b].hosted \in {0, body[b].hosted})
    BY <1>3, RunMoves
  <2> DEFINE Stays == Finishing(body[b]) => Finishing(body'[b]) /\ body'[b].hosted = body[b].hosted
  <2>2. CASE PostStatus(b)
    BY <2>2, StatusKept
  <2>3. CASE CreateHosted(b)
    BY <2>3, CreateKept
  <2>4. CASE Die(b)
    <3>1. UNCHANGED <<hosted>> /\ missed' = missed \cup ({body[b].hosted} \ {0}) /\ body'[b].hosted = 0
      BY <2>4, DieMoves, IdleTyped DEF Die, github
    <3> QED BY <2>1, <3>1, HostKept
  <2>5. CASE ListChecks(b) \/ WriteCheck(b) \/ CheckLost(b)
    <3>1. Stays
      <4>1. CASE ListChecks(b)
        <5>1. body'[b].left = body[b].left /\ body'[b].hosted = body[b].hosted
          BY <4>1, ListMoves
        <5> QED BY <5>1 DEF Finishing, In
      <4>2. CASE WriteCheck(b) \/ CheckLost(b)
        <5>1. PICK c, n : In(body[b], c, n) /\ PlaceOf(Head(body[b].left), c, n) /\ Went(b, c, n)
          BY <4>2, CheckMoves
        <5>2. Head(body[b].left).op = "check"
          BY <4>2 DEF WriteCheck, CheckLost, Does
        <5>3. Between(c, n) => c = "deploy" /\ n \in {10, 12, 15}
          BY <5>1, <5>2 DEF PlaceOf, Between
        <5>4. ASSUME Between(c, n)
              PROVE  Between(c, n + 1) /\ In(body'[b], c, n + 1) /\ body'[b].hosted = body[b].hosted
          BY <5>1, <5>3, <5>4, Ends DEF Went, Same, Between
        <5> QED BY <5>1, <5>4, FinishingAt
      <4> QED BY <2>5, <4>1, <4>2
    <3>2. hosted' = hosted /\ missed' = missed /\ ~CreateHosted(b)
      BY <2>5 DEF ListChecks, WriteCheck, CheckLost, CreateHosted, Does, github, history
    <3> QED BY <2>1, <3>1, <3>2, HostKept
  <2>6. CASE Admit(b) \/ FindDeployment(b) \/ CheckWorkflows(b) \/ CheckApproval(b)
    <3>1. PICK n : In(body[b], "deploy", n) /\ n \in {2, 3, 6, 8}
      BY <2>6, AdmitMoves, RowMoves, WorkflowMoves, ApprovalMoves
    <3>2. ~Finishing(body[b])
      BY <3>1, FinishingAt DEF Between
    <3>3. hosted' = hosted /\ missed' = missed /\ ~CreateHosted(b)
      BY <2>6 DEF Admit, FindDeployment, CheckWorkflows, CheckApproval, CreateHosted, Does,
         github, history
    <3> QED BY <2>1, <3>2, <3>3, HostKept
  <2>7. CASE ReportError(b) \/ CloseIssue(b)
    <3>1. PICK c, n : In(body[b], c, n) /\ <<c, n>> \in {<<"recover", 5>>, <<"reject", 2>>, <<"deploy", 21>>}
      BY <2>7, IssueMoves
    <3>2. ~Finishing(body[b])
      BY <3>1, FinishingAt DEF Between
    <3>3. hosted' = hosted /\ missed' = missed /\ ~CreateHosted(b)
      BY <2>7 DEF ReportError, CloseIssue, CreateHosted, Does
    <3> QED BY <2>1, <3>2, <3>3, HostKept
  <2>8. CASE Prepare(b) \/ DeployCompose(b) \/ FetchCaddyfile(b) \/ DeployCaddy(b) \/ Compensate(b) \/ Settle(b)
    <3>1. \/ Came(b, "recover")
          \/ Same(b) /\ In(body'[b], "deploy", 12)
          \/ In(body[b], "deploy", 20) /\ ~Came(b, "recover")
          \/ In(body'[b], "deploy", 14) /\ body'[b].hosted = body[b].hosted
          \/ \E n \in {15, 17, 18} : In(body'[b], "deploy", n) /\ Same(b)
          \/ In(body'[b], "recover", 2) /\ body'[b].hosted = body[b].hosted
          \/ In(body'[b], "recover", 3) /\ Same(b)
      <4>1. CASE Prepare(b)
        <5>1. PICK n \in {11, 20} : In(body[b], "deploy", n) /\ (Went(b, "deploy", n) \/ Came(b, "recover"))
          BY <4>1, PrepareMoves
        <5> QED BY <5>1, Ends DEF Went
      <4>2. CASE DeployCompose(b)
        BY <4>2, ComposeMoves
      <4>3. CASE FetchCaddyfile(b)
        BY <4>3, CaddyfileMoves
      <4>4. CASE DeployCaddy(b)
        BY <4>4, CaddyMoves, Ends DEF Went
      <4>5. CASE Compensate(b)
        BY <4>5, CompensateMoves
      <4>6. CASE Settle(b)
        BY <4>6, SettleMoves, Ends DEF Went
      <4> QED BY <2>8, <4>1, <4>2, <4>3, <4>4, <4>5, <4>6
    <3>2. Stays
      BY <3>1, FinishingAt DEF Between, Came, Same
    <3>3. hosted' = hosted /\ missed' = missed /\ ~CreateHosted(b)
      BY <2>8 DEF Prepare, DeployCompose, FetchCaddyfile, DeployCaddy, Compensate, Settle,
        CreateHosted, Does, github, history
    <3> QED BY <2>1, <3>2, <3>3, HostKept
  <2> QED BY <1>3, <2>2, <2>3, <2>4, <2>5, <2>6, <2>7, <2>8 DEF RunStep
<1> QED BY <1>1, <1>2, <1>3 DEF Next

\* A deployment that GitHub shows in progress has a run at work on it, unless the
\* run lost the call that would end it or died: for every number of concurrent
\* runs, also of one commit (executeDeployment, deployment-runner.ts:479).
THEOREM DeploymentsEnd == Spec => []InProgressEnds
<1>1. BasicInv /\ HostInv => InProgressEnds
  <2> SUFFICES ASSUME BasicInv, HostInv, NEW g \in DOMAIN hosted, hosted[g] = "in_progress",
                      g \notin missed
               PROVE  \E b \in Bodies : Running(b) /\ body[b].hosted = g
    BY DEF InProgressEnds
  <2>1. PICK b \in Bodies : body[b].hosted = g /\ Finishing(body[b])
    BY DEF HostInv
  <2>2. Running(b)
    BY <2>1, InFacts DEF Finishing, Running
  <2> QED BY <2>1, <2>2
<1> QED BY <1>1, BasicInit, BasicStep, HostInit, HostStep, PTL DEF Spec

-----------------------------------------------------------------------------
(* The outcome.                                                             *)

\* What is known while the run b is at step n of the course c, and no other.
Knows(b, c, n) ==
  /\ c = "deploy" =>
       /\ n <= 13 => ~body[b].composed
       /\ n <= 17 => last.outcome = "unknown"
       /\ n >= 14 => body[b].composed /\ vm = Commit(b)
       /\ n >= 17 /\ Commit(b) \in HasCaddyfile => caddy = Commit(b)
       /\ n >= 18 => last = Outcome(b, "success") /\ row[Commit(b)] = "success"
  /\ c = "recover" =>
       /\ n >= 2 /\ body[b].composed => vm = NoCommit
       /\ n >= 3 => last = Outcome(b, "failed") /\ row[Commit(b)] = "failed"
  /\ c \notin {"deploy", "recover"} => last.outcome = "unknown"

\* What the last outcome says is so.
Told ==
  last.outcome # "unknown" =>
    /\ row[last.commit] = last.outcome
    /\ last.outcome = "success" => /\ vm = last.commit
                                   /\ last.commit \in HasCaddyfile => caddy = vm
    /\ last.outcome = "failed" /\ last.composed => vm = NoCommit
    /\ issues = IF last.outcome = "failed" THEN 1 ELSE 0

AtKnown(b) == \E c \in CourseNames : \E n \in 1..End(c) : In(body[b], c, n) /\ Knows(b, c, n)

OutcomeInv ==
  ~overlapped =>
    /\ issues <= 1
    /\ \A b, d \in Bodies : Running(b) /\ Running(d) => b = d
    /\ \A b \in Bodies : Running(b) => AtKnown(b)
    /\ Idle => Told

\* Nothing is known, and no issue open, at first.
LEMMA OutcomeInit == Init => OutcomeInv
<1> SUFFICES ASSUME Init PROVE OutcomeInv
  OBVIOUS
<1>1. \A b \in Bodies : ~Running(b)
  BY IdleTyped DEF Init, Running
<1>2. last.outcome = "unknown" /\ issues = 0
  BY DEF Init, Unknown
<1> QED BY <1>1, <1>2 DEF OutcomeInv, Told

\* The only run moves on and still knows, or ends and what it leaves is so.
LEMMA OutcomeKept ==
  ASSUME BasicInv, OutcomeInv, ~overlapped, NEW b \in Bodies, Running(b), Alone(b), issues' <= 1,
         AtKnown(b)' \/ (body'[b] = IdleBody /\ Told')
  PROVE  OutcomeInv'
<1>1. \A d \in Bodies : d # b => ~Running(d)
  BY DEF OutcomeInv
<1>2. \A d \in Bodies : d # b => ~Running(d)'
  BY <1>1 DEF Alone, Running
<1>3. CASE AtKnown(b)'
  <2>1. Running(b)'
    BY <1>3, InFacts DEF AtKnown, Running
  <2>2. ~Idle'
    BY <2>1 DEF Idle
  <2> QED BY <1>2, <1>3, <2>1, <2>2 DEF OutcomeInv
<1>4. CASE body'[b] = IdleBody /\ Told'
  <2>1. ~Running(b)'
    BY <1>4, IdleTyped DEF Running
  <2> QED BY <1>2, <1>4, <2>1 DEF OutcomeInv
<1> QED BY <1>3, <1>4

\* What the only run knows at the place it is at.
LEMMA KnowsAt ==
  ASSUME OutcomeInv, ~overlapped, NEW b \in Bodies, NEW c, NEW n, In(body[b], c, n),
         c = "deploy" \/ (c = "recover" /\ n <= 3)
  PROVE  Knows(b, c, n)
<1>1. Running(b)
  BY InFacts DEF Running
<1>2. PICK d \in CourseNames : \E m \in 1..End(d) : In(body[b], d, m) /\ Knows(b, d, m)
  BY <1>1 DEF OutcomeInv, AtKnown
<1>3. PICK m \in 1..End(d) : In(body[b], d, m) /\ Knows(b, d, m)
  BY <1>2
<1>4. c = d /\ n = m
  <2>1. \/ c = d /\ n = m
        \/ c = "recover" /\ n \in {4, 5} /\ d = "reject"
        \/ d = "recover" /\ m \in {4, 5} /\ c = "reject"
    BY <1>3, OnePlace
  <2> QED BY <2>1
<1> QED BY <1>3, <1>4

\* A step that keeps the environment keeps what is known.
LEMMA KnowsNext ==
  ASSUME NEW b \in Bodies, NEW c, NEW n \in Nat, Knows(b, c, n), Same(b),
         UNCHANGED <<vm, caddy, last>>, row' = row \/ (c = "deploy" /\ n = 3),
         c = "deploy" => n \notin {13, 16, 17}, c = "recover" => n \notin {1, 2}
  PROVE  Knows(b, c, n + 1)'
<1>1. Commit(b)' = Commit(b) /\ body'[b].composed = body[b].composed
  BY DEF Same, Commit
<1>2. \A s : Outcome(b, s)' = Outcome(b, s)
  BY <1>1 DEF Outcome
<1>3. c = "deploy" => Knows(b, c, n + 1)'
  BY <1>1, <1>2 DEF Knows
<1>4. c = "recover" => Knows(b, c, n + 1)'
  BY <1>1, <1>2 DEF Knows
<1>5. c \notin {"deploy", "recover"} => Knows(b, c, n + 1)'
  BY DEF Knows
<1> QED BY <1>3, <1>4, <1>5

\* Every step keeps OutcomeInv, as long as runs have not overlapped.
LEMMA OutcomeStep == BasicInv /\ OutcomeInv /\ [Next]_vars => OutcomeInv'
<1> SUFFICES ASSUME BasicInv, OutcomeInv, [Next]_vars, ~overlapped' PROVE OutcomeInv'
  BY DEF OutcomeInv
<1> USE DEF BasicInv
<1>1. CASE UNCHANGED vars
  BY <1>1 DEF vars, github, world, history, OutcomeInv, AtKnown, Knows, Outcome, Told, In,
     Idle,
    Running, Commit
<1>2. ASSUME NEW b \in Bodies, NEW c \in Commits, Start(b, c)
      PROVE  OutcomeInv'
  <2>1. Alone(b) /\ In(body'[b], "deploy", 1) /\ body'[b].composed = FALSE
    BY <1>2, StartMoves
  <2>2. ~overlapped /\ (\A d \in Bodies : ~Running(d)) /\ last' = Unknown /\ issues' = issues
    BY <1>2 DEF Start, github
  <2>3. Knows(b, "deploy", 1)'
    BY <2>1, <2>2 DEF Knows, Unknown
  <2>4. Running(b)' /\ AtKnown(b)'
    <3>1. "deploy" \in CourseNames /\ 1 \in 1..End("deploy")
      BY <2>1 DEF In
    <3> QED BY <2>1, <2>3, <3>1, InFacts DEF AtKnown, Running
  <2>5. \A d \in Bodies : d # b => ~Running(d)'
    BY <2>1, <2>2 DEF Alone, Running
  <2>6. ~Idle'
    BY <2>4 DEF Idle
  <2> QED BY <2>2, <2>4, <2>5, <2>6 DEF OutcomeInv
<1>3. ASSUME NEW b \in Bodies, RunStep(b)
      PROVE  OutcomeInv'
  <2>1. Alone(b) /\ Running(b)
    BY <1>3, RunMoves
  <2>2. ~overlapped
    BY <1>3 DEF RunStep, ListChecks, WriteCheck, CheckLost, Admit, FindDeployment,
       CreateHosted,
      CheckWorkflows, Prepare, CheckApproval, PostStatus, ReportError, CloseIssue, DeployCompose,
      FetchCaddyfile, DeployCaddy, Compensate, Settle, Die, history
  <2>3. issues \in Nat /\ issues <= 1 /\ \A d \in Bodies : Running(d) => d = b
    BY <2>1, <2>2 DEF OutcomeInv, DataTyped
  \* What is left to show of a step that goes on, or that ends the run.
  <2>4. ASSUME NEW c, NEW n, In(body'[b], c, n), Knows(b, c, n)', issues' <= 1
        PROVE  OutcomeInv'
    <3>1. AtKnown(b)'
      BY <2>4 DEF AtKnown, In
    <3> QED BY <2>1, <2>2, <2>4, <3>1, OutcomeKept
  <2>5. ASSUME body'[b] = IdleBody, last'.outcome = "unknown", issues' <= 1
        PROVE  OutcomeInv'
    BY <2>1, <2>2, <2>5, OutcomeKept DEF Told
  <2>6. ASSUME Came(b, "recover"), issues' <= 1
        PROVE  OutcomeInv'
    BY <2>4, <2>6 DEF Came, Knows
  <2>7. ASSUME NEW c, NEW n \in Nat, In(body[b], c, n), Knows(b, c, n), Went(b, c, n), n # End(c),
               UNCHANGED <<vm, caddy, last, issues>>, row' = row \/ (c = "deploy" /\ n = 3),
               c = "deploy" => n \notin {13, 16, 17}, c = "recover" => n \notin {1, 2}
        PROVE  OutcomeInv'
    <3>1. In(body'[b], c, n + 1) /\ Same(b)
      BY <2>7 DEF Went
    <3> QED BY <2>3, <2>4, <2>7, <3>1, KnowsNext
  <2>8. CASE ListChecks(b)
    <3>1. /\ body'[b].left = body[b].left /\ body'[b].commit = body[b].commit
          /\ body'[b].composed = body[b].composed
      BY <2>8, ListMoves
    <3>2. PICK c, n : In(body[b], c, n) /\ Knows(b, c, n)
      BY <2>1, <2>2 DEF OutcomeInv, AtKnown
    <3>3. UNCHANGED <<row, vm, caddy, last, issues>>
      BY <2>8 DEF ListChecks, github, world, history
    <3>4. In(body'[b], c, n) /\ Knows(b, c, n)'
      BY <3>1, <3>2, <3>3 DEF In, Knows, Outcome, Commit
    <3> QED BY <2>3, <2>4, <3>3, <3>4
  <2>9. CASE WriteCheck(b) \/ CheckLost(b)
    <3>1. PICK c, n : In(body[b], c, n) /\ Knows(b, c, n)
      BY <2>1, <2>2 DEF OutcomeInv, AtKnown
    <3>2. PlaceOf(Head(body[b].left), c, n) /\ n \in Nat /\ Went(b, c, n)
      <4>1. Advance(b)
        BY <2>9 DEF WriteCheck, CheckLost
      <4> QED BY <2>1, <3>1, <4>1, At, AdvanceMoves, InFacts
    <3>3. \/ c = "deploy" /\ n \in {1, 5, 7, 10, 12, 15, 19}
          \/ c = "recover" /\ n = 4
          \/ c \in {"reject", "refuse", "park"}
      BY <2>9, <3>2 DEF WriteCheck, CheckLost, Does, PlaceOf
    <3>4. UNCHANGED <<row, vm, caddy, last, issues>>
      BY <2>9 DEF WriteCheck, CheckLost, world, history
    <3>5. CASE n = End(c)
      <4>1. c \in {"reject", "refuse", "park"}
        BY <3>3, <3>5, Ends
      <4>2. last.outcome = "unknown" /\ body'[b] = IdleBody
        BY <3>1, <3>2, <3>5, <4>1 DEF Knows, Went
      <4> QED BY <2>3, <2>5, <3>4, <4>2
    <3>6. CASE n # End(c)
      BY <2>7, <3>1, <3>2, <3>3, <3>4, <3>6
    <3> QED BY <3>5, <3>6
  <2>10. CASE Admit(b) \/ FindDeployment(b) \/ CheckWorkflows(b) \/ CheckApproval(b)
    <3>1. PICK n \in {2, 3, 6, 8} :
            /\ In(body[b], "deploy", n)
            /\ \/ Went(b, "deploy", n) \/ Came(b, "recover")
               \/ Came(b, "refuse") \/ Came(b, "reject") \/ Came(b, "park")
               \/ body'[b] = IdleBody
            /\ row' = row \/ n = 3
      BY <2>10, AdmitMoves, RowMoves, WorkflowMoves, ApprovalMoves DEF Admit,
         CheckWorkflows, CheckApproval
    <3>2. Knows(b, "deploy", n)
      BY <2>2, <3>1, KnowsAt
    <3>3. UNCHANGED <<vm, caddy, last, issues>>
      BY <2>10 DEF Admit, FindDeployment, CheckWorkflows, CheckApproval, github, world,
         history
    <3>4. last.outcome = "unknown"
      BY <3>2 DEF Knows
    <3>5. ASSUME NEW c \in {"refuse", "reject", "park"}, Came(b, c)
          PROVE  OutcomeInv'
      <4>1. Knows(b, c, 1)'
        BY <3>3, <3>4 DEF Knows
      <4> QED BY <2>3, <2>4, <3>3, <3>5, <4>1 DEF Came
    <3>6. CASE Went(b, "deploy", n)
      BY <2>7, <3>1, <3>2, <3>3, <3>6, Ends
    <3> QED BY <2>3, <2>5, <2>6, <3>1, <3>3, <3>4, <3>5, <3>6
  <2>11. CASE CreateHosted(b)
    <3>1. /\ In(body[b], "deploy", 4) /\ In(body'[b], "deploy", 5)
          /\ body'[b].commit = body[b].commit /\ body'[b].composed = body[b].composed
      BY <2>11, HostMoves
    <3>2. Knows(b, "deploy", 4)
      BY <2>2, <3>1, KnowsAt
    <3>3. UNCHANGED <<vm, caddy, last, issues>>
      BY <2>11 DEF CreateHosted, world, history
    <3>4. Knows(b, "deploy", 5)'
      BY <3>1, <3>2, <3>3 DEF Knows
    <3> QED BY <2>3, <2>4, <3>1, <3>3, <3>4
  <2>12. CASE Prepare(b)
    <3>1. PICK n \in {11, 20} : In(body[b], "deploy", n) /\ (Went(b, "deploy", n) \/ Came(b, "recover"))
      BY <2>12, PrepareMoves
    <3>2. Knows(b, "deploy", n)
      BY <2>2, <3>1, KnowsAt
    <3>3. UNCHANGED <<row, vm, caddy, last, issues>>
      BY <2>12 DEF Prepare, github, world, history
    <3>4. CASE Went(b, "deploy", n)
      BY <2>7, <3>1, <3>2, <3>3, <3>4, Ends
    <3> QED BY <2>3, <2>6, <3>1, <3>3, <3>4
  <2>13. CASE PostStatus(b)
    <3>1. PICK c, n : /\ In(body[b], c, n) /\ Went(b, c, n)
                      /\ <<c, n>> \in {<<"deploy", 9>>, <<"deploy", 18>>, <<"recover", 3>>}
      BY <2>13, StatusMoves
    <3>2. Knows(b, c, n)
      BY <2>2, <3>1, KnowsAt
    <3>3. UNCHANGED <<row, vm, caddy, last, issues>>
      BY <2>13 DEF PostStatus, world
    <3> QED BY <2>7, <3>1, <3>2, <3>3, Ends
  <2>14. CASE ReportError(b)
    <3>1. /\ body'[b] = IdleBody /\ UNCHANGED <<row, vm, caddy, last>>
          /\ issues' = IF issues = 0 THEN 1 ELSE issues
      BY <2>14, IssueMoves DEF ReportError, world
    <3>2. PICK c, n : In(body[b], c, n) /\ Knows(b, c, n)
      BY <2>1, <2>2 DEF OutcomeInv, AtKnown
    <3>3. (c = "recover" /\ n = 5) \/ (c = "reject" /\ n = 2)
      BY <2>1, <2>14, <3>2, At DEF ReportError, Does, PlaceOf
    <3>4. CASE c = "recover" /\ n = 5
      <4>1. last = Outcome(b, "failed") /\ row[Commit(b)] = "failed" /\ (body[b].composed => vm = NoCommit)
        BY <3>2, <3>4 DEF Knows
      <4>2. Told'
        BY <2>3, <3>1, <4>1 DEF Told, Outcome
      <4> QED BY <2>1, <2>2, <2>3, <3>1, <4>2, OutcomeKept
    <3>5. CASE c = "reject"
      <4>1. last.outcome = "unknown"
        BY <3>2, <3>5 DEF Knows
      <4> QED BY <2>3, <2>5, <3>1, <4>1
    <3> QED BY <3>3, <3>4, <3>5
  <2>15. CASE CloseIssue(b)
    <3>1. /\ In(body[b], "deploy", 21) /\ body'[b] = IdleBody /\ UNCHANGED <<row, vm, caddy, last>>
          /\ issues' = 0
      <4>1. issues' = (IF issues = 0 THEN 0 ELSE issues - 1) /\ UNCHANGED <<row, vm, caddy, last>>
        BY <2>15 DEF CloseIssue, world
      <4>2. issues' = 0
        BY <2>3, <4>1
      <4> QED BY <2>15, <4>1, <4>2, IssueMoves
    <3>2. /\ last = Outcome(b, "success") /\ row[Commit(b)] = "success" /\ vm = Commit(b)
          /\ Commit(b) \in HasCaddyfile => caddy = Commit(b)
      <4>1. Knows(b, "deploy", 21)
        BY <2>2, <3>1, KnowsAt
      <4> QED BY <4>1 DEF Knows
    <3>3. Told'
      BY <3>1, <3>2 DEF Told, Outcome
    <3> QED BY <2>1, <2>2, <2>3, <3>1, <3>3, OutcomeKept
  <2>16. CASE DeployCompose(b)
    <3>1. /\ In(body[b], "deploy", 13) /\ body'[b].commit = body[b].commit
          /\ \/ In(body'[b], "deploy", 14) /\ body'[b].composed = TRUE /\ vm' = Commit(b)
             \/ Came(b, "recover")
      BY <2>16, ComposeMoves
    <3>2. UNCHANGED <<row, caddy, last, issues>>
      BY <2>16 DEF DeployCompose, github, history
    <3>3. last.outcome = "unknown"
      <4>1. Knows(b, "deploy", 13)
        BY <2>2, <3>1, KnowsAt
      <4> QED BY <4>1 DEF Knows
    <3>4. CASE In(body'[b], "deploy", 14) /\ body'[b].composed = TRUE /\ vm' = Commit(b)
      <4>1. Knows(b, "deploy", 14)'
        BY <3>1, <3>2, <3>3, <3>4 DEF Knows, Commit
      <4> QED BY <2>3, <2>4, <3>2, <3>4, <4>1
    <3> QED BY <2>3, <2>6, <3>1, <3>2, <3>4
  <2>17. CASE FetchCaddyfile(b)
    <3>1. PICK n : /\ In(body[b], "deploy", 14) /\ Same(b) /\ In(body'[b], "deploy", n)
                   /\ n = 15 \/ (n = 17 /\ Commit(b) \notin HasCaddyfile)
      BY <2>17, CaddyfileMoves
    <3>2. Knows(b, "deploy", 14)
      BY <2>2, <3>1, KnowsAt
    <3>3. UNCHANGED <<row, vm, caddy, last, issues>>
      BY <2>17 DEF FetchCaddyfile, github, world, history
    <3>4. Knows(b, "deploy", n)'
      BY <3>1, <3>2, <3>3 DEF Knows, Same, Commit
    <3> QED BY <2>3, <2>4, <3>1, <3>3, <3>4
  <2>18. CASE DeployCaddy(b)
    <3>1. /\ In(body[b], "deploy", 16)
          /\ (Went(b, "deploy", 16) /\ caddy' = Commit(b)) \/ Came(b, "recover")
      BY <2>18, CaddyMoves
    <3>2. Knows(b, "deploy", 16)
      BY <2>2, <3>1, KnowsAt
    <3>3. UNCHANGED <<row, vm, last, issues>>
      BY <2>18 DEF DeployCaddy, github, history
    <3>4. CASE Went(b, "deploy", 16) /\ caddy' = Commit(b)
      <4>1. In(body'[b], "deploy", 17) /\ Same(b)
        BY <3>4, Ends DEF Went
      <4>2. Knows(b, "deploy", 17)'
        BY <3>2, <3>3, <3>4, <4>1 DEF Knows, Same, Commit
      <4> QED BY <2>3, <2>4, <3>3, <4>1, <4>2
    <3> QED BY <2>3, <2>6, <3>1, <3>3, <3>4
  <2>19. CASE Compensate(b)
    <3>1. In(body'[b], "recover", 2) /\ (body'[b].composed => vm' = NoCommit)
      BY <2>19, CompensateMoves
    <3>2. issues' = issues
      BY <2>19 DEF Compensate, github
    <3>3. Knows(b, "recover", 2)'
      BY <3>1 DEF Knows
    <3> QED BY <2>3, <2>4, <3>1, <3>2, <3>3
  <2>20. CASE Settle(b)
    <3>1. /\ UNCHANGED <<vm, caddy, issues>> /\ Commit(b) \in Commits
          /\ row \in [Commits -> Status]
      BY <2>1, <2>20, At DEF Settle, github, world, DataTyped
    <3>2. CASE Does(b, "succeed")
      <4>1. In(body[b], "deploy", 17) /\ Went(b, "deploy", 17)
        BY <2>20, <3>2, SettleMoves
      <4>2. In(body'[b], "deploy", 18) /\ Same(b)
        BY <4>1, Ends DEF Went
      <4>3. Knows(b, "deploy", 17)
        BY <2>2, <4>1, KnowsAt
      <4>4. row' = [row EXCEPT ![Commit(b)] = "success"] /\ last' = Outcome(b, "success")
        BY <2>20, <3>2 DEF Settle
      <4>5. Knows(b, "deploy", 18)'
        BY <3>1, <4>2, <4>3, <4>4 DEF Knows, Same, Commit, Outcome
      <4> QED BY <2>3, <2>4, <3>1, <4>2, <4>5
    <3>3. CASE Does(b, "fail") /\ ~Does(b, "succeed")
      <4>1. In(body[b], "recover", 2) /\ Went(b, "recover", 2)
        BY <2>20, <3>3, SettleMoves
      <4>2. In(body'[b], "recover", 3) /\ Same(b)
        BY <4>1, Ends DEF Went
      <4>3. Knows(b, "recover", 2)
        BY <2>2, <4>1, KnowsAt
      <4>4. row' = [row EXCEPT ![Commit(b)] = "failed"] /\ last' = Outcome(b, "failed")
        BY <2>20, <3>3 DEF Settle
      <4>5. Knows(b, "recover", 3)'
        BY <3>1, <4>2, <4>3, <4>4 DEF Knows, Same, Commit, Outcome
      <4> QED BY <2>3, <2>4, <3>1, <4>2, <4>5
    <3> QED BY <2>20, <3>2, <3>3 DEF Settle
  <2>21. CASE Die(b)
    <3>1. body'[b] = IdleBody /\ last'.outcome = "unknown" /\ issues' = issues
      BY <2>21, DieMoves DEF Die, Unknown, github
    <3> QED BY <2>3, <2>5, <3>1
  <2> QED BY <1>3, <2>8, <2>9, <2>10, <2>11, <2>12, <2>13, <2>14, <2>15, <2>16, <2>17,
      <2>18, <2>19,
             <2>20, <2>21 DEF RunStep
<1> QED BY <1>1, <1>2, <1>3 DEF Next

\* As long as runs did not overlap, the outcome of the last one is what the row
\* says and what the VM and Caddy serve, however calls failed and wherever it
\* died (deployment-runner.ts:838-1012).
THEOREM VmAgrees == Spec => []VmAgreesWithRow
<1>1. OutcomeInv => VmAgreesWithRow
  BY DEF OutcomeInv, Told, VmAgreesWithRow
<1> QED BY <1>1, BasicInit, BasicStep, OutcomeInit, OutcomeStep, PTL DEF Spec

\* As long as runs did not overlap and no issue call failed, an error issue is
\* open exactly when the last run failed (reportDeploymentError and
\* closeDeploymentErrorIssue, github-status.ts).
THEOREM IssueTells == Spec => []IssueTellsOutcome
<1>1. OutcomeInv => IssueTellsOutcome
  BY DEF OutcomeInv, Told, IssueTellsOutcome
<1> QED BY <1>1, BasicInit, BasicStep, OutcomeInit, OutcomeStep, PTL DEF Spec

-----------------------------------------------------------------------------
(* The check runs.                                                          *)

Open(c) == {n \in DOMAIN checks[c] : checks[c][n] \in Incomplete}

\* A run that has its outcome, at step n of the course c: what it leaves open
\* it has still to close.
Settled(b, c, n) ==
  /\ (c = "deploy" /\ n >= 18) \/ c = "recover"
  /\ c = "deploy" /\ n >= 20 => Open(Commit(b)) = {}
  /\ c = "recover" /\ n = 5 => Open(Commit(b)) = {}

AtSettled(b) == \E c \in CourseNames : \E n \in 1..End(c) : In(body[b], c, n) /\ Settled(b, c, n)

\* A commit has one run, which knows the newest check run if it looked, and
\* only that one may be open; once the last outcome is the commit's, its run
\* is past it, and when there is none, no check run is open.
CheckOK(c) ==
  /\ \A b, d \in Bodies : Running(b) /\ Running(d) /\ Commit(b) = c /\ Commit(d) = c => b = d
  /\ Open(c) \subseteq {Len(checks[c])}
  /\ \A b \in Bodies : Running(b) /\ Commit(b) = c => body[b].seen \in {Unlisted, Newest(c)}
  /\ last.outcome # "unknown" /\ last.commit = c =>
       /\ \A b \in Bodies : Running(b) /\ Commit(b) = c => AtSettled(b)
       /\ (\A b \in Bodies : Running(b) => Commit(b) # c) => Open(c) = {}

CheckInv == \A c \in Commits \ doubled : CheckOK(c)

\* There are no check runs at first.
LEMMA CheckInit == Init => CheckInv
<1> SUFFICES ASSUME Init, NEW c \in Commits PROVE CheckOK(c)
  BY DEF CheckInv
<1>1. \A b \in Bodies : ~Running(b)
  BY IdleTyped DEF Init, Running
<1>2. last.outcome = "unknown" /\ Open(c) = {}
  BY DEF Init, Unknown, Open
<1> QED BY <1>1, <1>2 DEF CheckOK

\* The step of a run leaves another commit's check runs as they are.
LEMMA OthersChecked ==
  ASSUME NEW b \in Bodies, Alone(b), Running(b), NEW c, c # Commit(b), CheckOK(c),
         body'[b] = IdleBody \/ body'[b].commit = body[b].commit, checks'[c] = checks[c],
         last' = last \/ last'.outcome = "unknown" \/ last'.commit # c
  PROVE  CheckOK(c)'
<1>1. \A d \in Bodies : (Running(d) /\ Commit(d) = c)' => d # b
  BY IdleTyped DEF Running, Commit
<1>2. \A d \in Bodies : d # b => body'[d] = body[d]
  BY DEF Alone
<1>3. Open(c)' = Open(c) /\ Newest(c)' = Newest(c)
  BY DEF Open, Newest
<1>4. \A d \in Bodies : (Running(d) /\ Commit(d) = c)' <=> (Running(d) /\ Commit(d) = c)
  BY <1>1, <1>2 DEF Running, Commit
<1>5. ASSUME NEW d \in Bodies, Running(d), Commit(d) = c, AtSettled(d)
      PROVE  AtSettled(d)'
  <2>1. body'[d] = body[d]
    BY <1>2, <1>4, <1>5, <1>1
  <2> QED BY <1>3, <1>5, <2>1 DEF AtSettled, Settled, In, Commit
<1> QED BY <1>1, <1>2, <1>3, <1>4, <1>5 DEF CheckOK

\* A step that writes no check run and no outcome leaves the run's own
\* commit as it should be, when a run that has its outcome keeps it or ends
\* with all closed.
LEMMA OwnChecked ==
  ASSUME NEW b \in Bodies, Alone(b), Running(b), CheckOK(Commit(b)), checks' = checks, last' = last,
         \/ body'[b] = IdleBody
         \/ /\ body'[b].commit = body[b].commit
            /\ body'[b].seen \in {Unlisted, Newest(Commit(b))},
         AtSettled(b) =>
           AtSettled(b)' \/ (body'[b] = IdleBody /\ Open(Commit(b)) = {})
  PROVE  \A c : c = Commit(b) => CheckOK(c)'
<1> SUFFICES ASSUME NEW c, c = Commit(b) PROVE CheckOK(c)'
  OBVIOUS
<1>1. \A d \in Bodies : Running(d) /\ Commit(d) = c => d = b
  BY DEF CheckOK
<1>2. \A d \in Bodies : (Running(d) /\ Commit(d) = c)' => d = b
  BY <1>1 DEF Alone, Running, Commit
<1>3. Open(c)' = Open(c) /\ Newest(c)' = Newest(c)
  BY DEF Open, Newest
<1>4. CASE body'[b] = IdleBody
  <2>1. ~Running(b)'
    BY <1>4, IdleTyped DEF Running
  <2>2. ~AtSettled(b)'
    BY <2>1, InFacts DEF AtSettled, Running
  <2> QED BY <1>2, <1>3, <2>1, <2>2 DEF CheckOK
<1>5. CASE body'[b] # IdleBody
  <2>1. Commit(b)' = c
    BY <1>5 DEF Commit
  <2>2. ASSUME AtSettled(b)' PROVE Running(b)'
    BY <2>2, InFacts DEF AtSettled, Running
  <2> QED BY <1>2, <1>3, <1>5, <2>1, <2>2 DEF CheckOK
<1> QED BY <1>4, <1>5

\* A run that has its outcome is at a place after it.
LEMMA SettledAt ==
  ASSUME NEW b \in Bodies, NEW n, In(body[b], "deploy", n), AtSettled(b)
  PROVE  n >= 18 /\ Settled(b, "deploy", n)
<1>1. PICK c \in CourseNames : \E m \in 1..End(c) : In(body[b], c, m) /\ Settled(b, c, m)
  BY DEF AtSettled
<1>2. PICK m \in 1..End(c) : In(body[b], c, m) /\ Settled(b, c, m)
  BY <1>1
<1>3. \/ "deploy" = c /\ n = m
      \/ "deploy" = "recover" /\ n \in {4, 5} /\ c = "reject"
      \/ c = "recover" /\ m \in {4, 5} /\ "deploy" = "reject"
  BY <1>2, OnePlace
<1> QED BY <1>2, <1>3 DEF Settled

\* Writing the check run of the run's own commit.
LEMMA WriteChecked ==
  ASSUME BasicInv, CheckInv, NEW b \in Bodies, WriteCheck(b), Commit(b) \notin doubled
  PROVE  \A c : c = Commit(b) => CheckOK(c)'
<1> USE DEF BasicInv
<1> SUFFICES ASSUME NEW c, c = Commit(b) PROVE CheckOK(c)'
  OBVIOUS
<1>1. Running(b) /\ Alone(b) /\ c \in Commits /\ body[b].seen # Unlisted
  BY CheckMoves, At DEF WriteCheck, Does
<1>2. CheckOK(c)
  BY <1>1 DEF CheckInv
<1>3. body[b].seen = Newest(c)
  BY <1>1, <1>2 DEF CheckOK
<1>4. PICK cc, n : In(body[b], cc, n) /\ PlaceOf(Head(body[b].left), cc, n) /\ Went(b, cc, n)
  BY CheckMoves
<1>5. Head(body[b].left).op = "check"
  BY DEF WriteCheck, Does
<1>6. Arg(b) \in CheckState
  BY <1>4, <1>5 DEF PlaceOf, Arg, CheckState
<1> DEFINE s == checks[c]
           t == checks'[c]
<1>7. s \in Seq(CheckState) /\ Len(s) \in Nat /\ DOMAIN s = 1..Len(s)
  BY <1>1 DEF DataTyped
<1>8. /\ Open(c)' \subseteq {Len(t)}
      /\ Arg(b) \notin Incomplete => Open(c)' = {}
  <2>1. Open(c) \subseteq {Len(s)}
    BY <1>2 DEF CheckOK
  <2>2. CASE Newest(c) > 0
    <3>1. Newest(c) = Len(s)
      BY <1>7, <2>2 DEF Newest
    <3>2. checks' = [checks EXCEPT ![c][Len(s)] = Arg(b)]
      BY <1>3, <2>2, <3>1 DEF WriteCheck
    <3>3. t = [s EXCEPT ![Len(s)] = Arg(b)]
      BY <1>1, <3>2 DEF DataTyped
    <3>4. /\ Len(t) = Len(s) /\ t \in Seq(CheckState)
          /\ \A i \in 1..Len(s) : t[i] = IF i = Len(s) THEN Arg(b) ELSE s[i]
      BY <1>6, <1>7, <3>3, Written
    <3>5. DOMAIN t = 1..Len(s)
      BY <1>7, <3>4
    <3>6. \A i \in 1..Len(s) : i # Len(s) => s[i] \notin Incomplete
      BY <1>7, <2>1 DEF Open
    <3> QED BY <3>4, <3>5, <3>6 DEF Open
  <2>3. CASE ~(Newest(c) > 0)
    <3>1. Open(c) = {}
      BY <1>7, <2>1, <2>3 DEF Open, Newest
    <3>2. checks' = [checks EXCEPT ![c] = Append(checks[c], Arg(b))]
      BY <1>3, <2>3 DEF WriteCheck
    <3>3. t = Append(s, Arg(b))
      BY <1>1, <3>2 DEF DataTyped
    <3>4. /\ Len(t) = Len(s) + 1 /\ DOMAIN t = 1..Len(s) + 1 /\ t[Len(s) + 1] = Arg(b)
          /\ \A i \in 1..Len(s) : t[i] = s[i]
      BY <1>6, <1>7, <3>3
    <3>5. \A i \in 1..Len(s) : s[i] \notin Incomplete
      BY <1>7, <3>1 DEF Open
    <3>6. ASSUME NEW i \in DOMAIN t, t[i] \in Incomplete
          PROVE  i = Len(t) /\ Arg(b) \in Incomplete
      <4>1. i \in 1..Len(s) + 1
        BY <3>4, <3>6
      <4>2. i \notin 1..Len(s)
        BY <3>4, <3>5, <3>6
      <4>3. i = Len(s) + 1
        BY <1>7, <4>1, <4>2
      <4> QED BY <3>4, <3>6, <4>3
    <3> QED BY <3>6 DEF Open
  <2> QED BY <2>2, <2>3
<1>9. \A d \in Bodies : (Running(d) /\ Commit(d) = c)' => d = b
  BY <1>2, <1>1 DEF CheckOK, Alone, Running, Commit
<1>10. ASSUME (Running(b) /\ Commit(b) = c)'
       PROVE  body'[b].seen = Unlisted
  <2>1. n # End(cc)
    BY <1>4, <1>10, IdleTyped DEF Went, Running
  <2> QED BY <1>4, <2>1 DEF Went, Same
<1>11. ASSUME last.outcome # "unknown", last.commit = c
       PROVE  Running(b)' /\ Commit(b)' = c /\ AtSettled(b)'
  <2>1. PICK d \in CourseNames : \E m \in 1..End(d) : In(body[b], d, m) /\ Settled(b, d, m)
    BY <1>1, <1>2, <1>11 DEF CheckOK, AtSettled
  <2>2. PICK m \in 1..End(d) : In(body[b], d, m) /\ Settled(b, d, m)
    BY <2>1
  <2>3. /\ PlaceOf(Head(body[b].left), d, m) /\ Went(b, d, m)
    <3>1. Advance(b)
      BY DEF WriteCheck
    <3> QED BY <1>1, <2>2, <3>1, At, AdvanceMoves
  <2>4. /\ (d = "deploy" /\ m = 19) \/ (d = "recover" /\ m = 4)
        /\ Arg(b) \in {"success", "failure"}
    BY <1>5, <2>2, <2>3 DEF PlaceOf, Settled, Arg
  <2>5. Open(c)' = {}
    BY <1>8, <2>4 DEF Incomplete
  <2>6. In(body'[b], d, m + 1) /\ Same(b)
    BY <2>3, <2>4, Ends DEF Went
  <2>7. Running(b)' /\ Commit(b)' = c
    BY <2>6, InFacts DEF Running, Same, Commit
  <2>8. Settled(b, d, m + 1)'
    BY <2>4, <2>5, <2>7 DEF Settled
  <2> QED BY <2>6, <2>7, <2>8 DEF AtSettled, In
<1>12. last' = last
  BY DEF WriteCheck, history
<1> QED BY <1>8, <1>9, <1>10, <1>11, <1>12 DEF CheckOK

\* A run has its outcome: what its commit has open, it has still to close.
LEMMA SettleChecked ==
  ASSUME BasicInv, CheckInv, NEW b \in Bodies, Settle(b), Commit(b) \notin doubled
  PROVE  \A c : c = Commit(b) => CheckOK(c)'
<1> USE DEF BasicInv
<1> SUFFICES ASSUME NEW c, c = Commit(b) PROVE CheckOK(c)'
  OBVIOUS
<1>1. Running(b) /\ Alone(b) /\ c \in Commits
  BY SettleMoves, At DEF Settle, Does
<1>2. CheckOK(c)
  BY <1>1 DEF CheckInv
<1>3. PICK cc, n : /\ In(body'[b], cc, n) /\ Same(b)
                   /\ (cc = "deploy" /\ n = 18) \/ (cc = "recover" /\ n = 3)
  BY SettleMoves, Ends DEF Went
<1>4. Running(b)' /\ Commit(b)' = c /\ body'[b].seen = Unlisted
  BY <1>3, InFacts DEF Running, Same, Commit
<1>5. Settled(b, cc, n)'
  BY <1>3 DEF Settled
<1>6. AtSettled(b)'
  BY <1>3, <1>5 DEF AtSettled, In
<1>7. \A d \in Bodies : (Running(d) /\ Commit(d) = c)' => d = b
  BY <1>1, <1>2 DEF CheckOK, Alone, Running, Commit
<1>8. Open(c)' = Open(c) /\ checks' = checks
  BY DEF Settle, github, Open
<1> QED BY <1>2, <1>4, <1>6, <1>7, <1>8 DEF CheckOK

\* Every step keeps CheckInv.
LEMMA CheckStep == BasicInv /\ CheckInv /\ [Next]_vars => CheckInv'
<1> SUFFICES ASSUME BasicInv, CheckInv, [Next]_vars PROVE CheckInv'
  OBVIOUS
<1> USE DEF BasicInv
<1>1. CASE UNCHANGED vars
  BY <1>1 DEF vars, github, history, CheckInv, CheckOK, Open, Newest, AtSettled, Settled,
     In,
    Running, Commit
<1>2. ASSUME NEW b \in Bodies, NEW k \in Commits, Start(b, k)
      PROVE  CheckInv'
  <2>1. Alone(b) /\ body'[b].commit = k /\ body'[b].seen = Unlisted
    BY <1>2, StartMoves
  <2>2. checks' = checks /\ last'.outcome = "unknown" /\ doubled \subseteq doubled'
    BY <1>2 DEF Start, github, Unknown
  <2>3. ASSUME NEW c \in Commits \ doubled'
        PROVE  CheckOK(c)'
    <3>1. CheckOK(c)
      BY <2>2 DEF CheckInv
    <3>2. Open(c)' = Open(c) /\ Newest(c)' = Newest(c)
      BY <2>2 DEF Open, Newest
    <3>3. k = c => \A d \in Bodies : ~(Running(d) /\ Commit(d) = c)
      BY <1>2 DEF Start
    <3>4. \A d \in Bodies : d # b => body'[d] = body[d]
      BY <2>1 DEF Alone
    <3>5. \A d \in Bodies : (Running(d) /\ Commit(d) = c)' => (d = b /\ k = c) \/ (d # b /\ Running(d) /\ Commit(d) = c)
      BY <2>1, <3>4 DEF Running, Commit
    <3>6. \A d, e \in Bodies : (Running(d) /\ Running(e) /\ Commit(d) = c /\ Commit(e) = c)' => d = e
      BY <3>1, <3>3, <3>5 DEF CheckOK
    <3>7. \A d \in Bodies : (Running(d) /\ Commit(d) = c)' => body'[d].seen \in {Unlisted, Newest(c)}
      BY <2>1, <3>1, <3>4, <3>5 DEF CheckOK
    <3> QED BY <2>2, <3>1, <3>2, <3>6, <3>7 DEF CheckOK
  <2> QED BY <2>3 DEF CheckInv
<1>3. ASSUME NEW b \in Bodies, RunStep(b)
      PROVE  CheckInv'
  <2>1. Alone(b) /\ Running(b) /\ Commit(b) \in Commits
    BY <1>3, RunMoves, At
  <2>2. Commit(b) \notin doubled => CheckOK(Commit(b))
    BY <2>1 DEF CheckInv
  \* What is left to show: the run's own commit.
  <2>3. ASSUME body'[b] = IdleBody \/ body'[b].commit = body[b].commit,
               \A c \in Commits \ doubled' : c # Commit(b) => checks'[c] = checks[c],
               doubled \subseteq doubled',
               last' = last \/ last'.outcome = "unknown" \/ last'.commit = Commit(b),
               \A c : c = Commit(b) /\ c \notin doubled' => CheckOK(c)'
        PROVE  CheckInv'
    <3>1. ASSUME NEW c \in Commits \ doubled', c # Commit(b)
          PROVE  CheckOK(c)'
      <4>1. CheckOK(c) /\ checks'[c] = checks[c]
        BY <2>3, <3>1 DEF CheckInv
      <4>2. last' = last \/ last'.outcome = "unknown" \/ last'.commit # c
        BY <2>3, <3>1
      <4> QED BY <2>1, <2>3, <3>1, <4>1, <4>2, OthersChecked
    <3> QED BY <2>3, <3>1 DEF CheckInv
  <2>4. ASSUME checks' = checks, last' = last, doubled' = doubled,
               \/ body'[b] = IdleBody
               \/ /\ body'[b].commit = body[b].commit
                  /\ body'[b].seen \in {Unlisted, Newest(Commit(b))},
               AtSettled(b) =>
                 AtSettled(b)' \/ (body'[b] = IdleBody /\ Open(Commit(b)) = {})
        PROVE  CheckInv'
    <3>1. \A c : c = Commit(b) /\ c \notin doubled' => CheckOK(c)'
      BY <2>1, <2>2, <2>4, OwnChecked
    <3> QED BY <2>3, <2>4, <3>1
  <2>5. CASE ListChecks(b)
    <3>1. /\ body'[b].left = body[b].left /\ body'[b].commit = body[b].commit
          /\ body'[b].seen = Newest(Commit(b))
      BY <2>5, ListMoves
    <3>2. checks' = checks /\ last' = last /\ doubled' = doubled
      BY <2>5 DEF ListChecks, github, history
    <3>3. AtSettled(b) => AtSettled(b)'
      BY <3>1, <3>2 DEF AtSettled, Settled, In, Open, Commit
    <3> QED BY <2>4, <3>1, <3>2, <3>3
  <2>6. CASE WriteCheck(b)
    <3>1. PICK k, n : Went(b, k, n)
      BY <2>6, CheckMoves
    <3>2. body'[b] = IdleBody \/ body'[b].commit = body[b].commit
      BY <3>1 DEF Went, Same
    <3>3. /\ \A c \in Commits : c # Commit(b) => checks'[c] = checks[c]
          /\ last' = last /\ doubled' = doubled
      BY <2>6 DEF WriteCheck, history, DataTyped
    <3>4. \A c : c = Commit(b) /\ c \notin doubled' => CheckOK(c)'
      BY <2>6, <3>3, WriteChecked
    <3> QED BY <2>3, <3>2, <3>3, <3>4
  <2>7. CASE CheckLost(b) \/ Die(b)
    <3>1. body'[b] = IdleBody \/ body'[b].commit = body[b].commit
      <4>1. CASE CheckLost(b)
        <5>1. PICK c, n : Went(b, c, n)
          BY <4>1, CheckMoves
        <5> QED BY <5>1 DEF Went, Same
      <4> QED BY <2>7, <4>1, DieMoves
    <3>2. /\ \A c \in Commits : c # Commit(b) => checks'[c] = checks[c]
          /\ last' = last \/ last'.outcome = "unknown"
          /\ doubled' = doubled \cup {Commit(b)}
      BY <2>7 DEF CheckLost, Die, DataTyped, github, Unknown
    <3> QED BY <2>3, <3>1, <3>2
  <2>8. CASE Settle(b)
    <3>1. body'[b].commit = body[b].commit
      BY <2>8, SettleMoves, Ends DEF Went, Same
    <3>2. checks' = checks /\ doubled' = doubled /\ last'.commit = Commit(b)
      BY <2>8 DEF Settle, github, Outcome
    <3>3. \A c : c = Commit(b) /\ c \notin doubled' => CheckOK(c)'
      BY <2>8, <3>2, SettleChecked
    <3> QED BY <2>3, <3>1, <3>2, <3>3
  <2>9. CASE Admit(b) \/ FindDeployment(b) \/ CheckWorkflows(b) \/ CheckApproval(b)
    <3>1. PICK n \in {2, 3, 6, 8} :
            /\ In(body[b], "deploy", n)
            /\ \/ Went(b, "deploy", n) \/ Came(b, "recover")
               \/ Came(b, "refuse") \/ Came(b, "reject") \/ Came(b, "park")
               \/ body'[b] = IdleBody
      BY <2>9, AdmitMoves, RowMoves, WorkflowMoves, ApprovalMoves
    <3>2. \/ body'[b] = IdleBody
          \/ body'[b].commit = body[b].commit /\ body'[b].seen = Unlisted
      BY <3>1 DEF Went, Came, Same
    <3>3. ~AtSettled(b)
      BY <3>1, SettledAt
    <3>4. checks' = checks /\ last' = last /\ doubled' = doubled
      BY <2>9 DEF Admit, FindDeployment, CheckWorkflows, CheckApproval, github, history
    <3> QED BY <2>4, <3>2, <3>3, <3>4
  <2>10. CASE CreateHosted(b) \/ DeployCompose(b) \/ FetchCaddyfile(b) \/ DeployCaddy(b)
    <3>1. PICK n \in {4, 13, 14, 16} : In(body[b], "deploy", n)
      BY <2>10, HostMoves, ComposeMoves, CaddyfileMoves, CaddyMoves
    <3>2. body'[b].commit = body[b].commit /\ body'[b].seen = Unlisted
      <4>1. CASE CreateHosted(b) \/ DeployCompose(b)
        BY <4>1, HostMoves, ComposeMoves
      <4>2. CASE FetchCaddyfile(b)
        BY <4>2, CaddyfileMoves DEF Same
      <4>3. CASE DeployCaddy(b)
        <5>1. Went(b, "deploy", 16) \/ Came(b, "recover")
          BY <4>3, CaddyMoves
        <5> QED BY <5>1, Ends DEF Went, Came, Same
      <4> QED BY <2>10, <4>1, <4>2, <4>3
    <3>3. ~AtSettled(b)
      BY <3>1, SettledAt
    <3>4. checks' = checks /\ last' = last /\ doubled' = doubled
      BY <2>10 DEF CreateHosted, DeployCompose, FetchCaddyfile, DeployCaddy, github, history
    <3> QED BY <2>4, <3>2, <3>3, <3>4
  <2>11. CASE Prepare(b)
    <3>1. PICK n \in {11, 20} : In(body[b], "deploy", n) /\ (Went(b, "deploy", n) \/ Came(b, "recover"))
      BY <2>11, PrepareMoves
    <3>2. Same(b) /\ (In(body'[b], "deploy", n + 1) \/ In(body'[b], "recover", 1))
      BY <3>1, Ends DEF Went, Came
    <3>3. checks' = checks /\ last' = last /\ doubled' = doubled
      BY <2>11 DEF Prepare, github, history
    <3>4. ASSUME AtSettled(b) PROVE AtSettled(b)'
      <4>1. n = 20 /\ Open(Commit(b)) = {}
        BY <3>1, <3>4, SettledAt DEF Settled
      <4>2. Open(Commit(b))' = {} /\ Commit(b)' = Commit(b)
        BY <3>2, <3>3, <4>1 DEF Open, Same, Commit
      <4>3. Settled(b, "deploy", 21)' /\ Settled(b, "recover", 1)'
        BY <4>2 DEF Settled
      <4> QED BY <3>2, <4>1, <4>3 DEF AtSettled, In
    <3> QED BY <2>4, <3>2, <3>3, <3>4 DEF Same
  <2>12. CASE PostStatus(b)
    <3>1. PICK c, n : /\ In(body[b], c, n) /\ Went(b, c, n)
                      /\ <<c, n>> \in {<<"deploy", 9>>, <<"deploy", 18>>, <<"recover", 3>>}
      BY <2>12, StatusMoves
    <3>2. In(body'[b], c, n + 1) /\ Same(b)
      BY <3>1, Ends DEF Went
    <3>3. checks' = checks /\ last' = last /\ doubled' = doubled
      BY <2>12 DEF PostStatus
    <3>4. ASSUME AtSettled(b) PROVE AtSettled(b)'
      <4>1. <<c, n>> \in {<<"deploy", 18>>, <<"recover", 3>>}
        BY <3>1, <3>4, SettledAt
      <4>2. Settled(b, c, n + 1)'
        BY <4>1 DEF Settled
      <4> QED BY <3>2, <4>2 DEF AtSettled, In
    <3> QED BY <2>4, <3>2, <3>3, <3>4 DEF Same
  <2>13. CASE ReportError(b) \/ CloseIssue(b)
    <3>1. body'[b] = IdleBody /\ checks' = checks /\ last' = last /\ doubled' = doubled
      BY <2>13, IssueMoves DEF ReportError, CloseIssue
    <3>2. ASSUME AtSettled(b) PROVE Open(Commit(b)) = {}
      <4>1. PICK c \in CourseNames : \E n \in 1..End(c) : In(body[b], c, n) /\ Settled(b, c, n)
        BY <3>2 DEF AtSettled
      <4>2. PICK n \in 1..End(c) : In(body[b], c, n) /\ Settled(b, c, n)
        BY <4>1
      <4>3. PlaceOf(Head(body[b].left), c, n) /\ Head(body[b].left).op \in {"report", "close"}
        BY <2>1, <2>13, <4>2, At DEF ReportError, CloseIssue, Does
      <4> QED BY <4>2, <4>3 DEF PlaceOf, Settled
    <3> QED BY <2>4, <3>1, <3>2
  <2>14. CASE Compensate(b)
    <3>1. /\ In(body'[b], "recover", 2) /\ body'[b].commit = body[b].commit
          /\ body'[b].seen = Unlisted
      BY <2>14, CompensateMoves
    <3>2. checks' = checks /\ last' = last /\ doubled' = doubled
      BY <2>14 DEF Compensate, github, history
    <3>3. AtSettled(b)'
      <4>1. Settled(b, "recover", 2)'
        BY DEF Settled
      <4> QED BY <3>1, <4>1 DEF AtSettled, In
    <3> QED BY <2>4, <3>1, <3>2, <3>3
  <2> QED BY <1>3, <2>5, <2>6, <2>7, <2>8, <2>9, <2>10, <2>11, <2>12, <2>13, <2>14
      DEF RunStep
<1> QED BY <1>1, <1>2, <1>3 DEF Next

\* At most the newest check run of a commit is open, and none once its last run
\* has an outcome, unless the commit had two runs at once, or a run of its lost a
\* call or died (updateCommitStatus, github-status.ts).
THEOREM ChecksDoSettle == Spec => []ChecksSettle
<1>1. CheckInv => ChecksSettle
  <2> SUFFICES ASSUME CheckInv, NEW c \in Commits \ doubled
               PROVE  /\ Open(c) \subseteq {Len(checks[c])}
                      /\ Idle /\ last.commit = c /\ last.outcome # "unknown" => Open(c) = {}
    BY DEF ChecksSettle, Open
  <2> QED BY DEF CheckInv, CheckOK, Idle
<1> QED BY <1>1, BasicInit, BasicStep, CheckInit, CheckStep, PTL DEF Spec

-----------------------------------------------------------------------------
(* The type invariant, for which there must be a commit to start from.      *)

\* Every reachable state is well-typed, once there is a commit to deploy.
THEOREM RunnerTypeCorrect ==
  ASSUME Commits # {}
  PROVE  Spec => []TypeOK
<1>1. BasicInv => TypeOK
  <2> SUFFICES ASSUME BasicInv PROVE TypeOK
    OBVIOUS
  <2>1. ASSUME NEW b \in Bodies PROVE body[b] \in Body
    <3>1. body[b] \in Run /\ OnCourse(body[b]) /\ SomeCommit \in Commits
      BY DEF BasicInv, BodyTyped, SomeCommit
    <3>2. \E c \in CourseNames : \E n \in 1..End(c) + 1 : body[b].left = Left(c, n)
      <4>1. CASE body[b] = IdleBody
        <5>1. End("deploy") \in Nat /\ Left("deploy", End("deploy") + 1) = <<>> /\ "deploy" \in CourseNames
          BY LeftFacts, Ends
        <5> QED BY <4>1, <5>1, IdleTyped
      <4>2. CASE body[b] # IdleBody
        <5>1. PICK c, n : In(body[b], c, n)
          BY <3>1, <4>2 DEF OnCourse
        <5>2. c \in CourseNames /\ n \in 1..End(c) /\ body[b].left = Left(c, n)
          BY <5>1 DEF In
        <5>3. End(c) \in Nat
          BY <5>2, LeftFacts
        <5> QED BY <5>2, <5>3
      <4> QED BY <4>1, <4>2
    <3>3. body[b].left \in UNION {Rest(course) : course \in CourseNames}
      BY <3>2 DEF Rest, Left, End
    <3> QED BY <3>1, <3>3 DEF Run, Body
  <2>2. body \in [Bodies -> Body]
    BY <2>1 DEF BasicInv, BodyTyped
  <2> QED BY <2>2 DEF BasicInv, DataTyped, TypeOK
<1> QED BY <1>1, BasicInit, BasicStep, PTL DEF Spec
=============================================================================
