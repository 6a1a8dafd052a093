----------------------------- MODULE SlotProofs -----------------------------
(***************************************************************************)
(* A slot of the direct harness, for any number of releases, faults,       *)
(* signals and interrupts.                                                 *)
(*                                                                         *)
(* Of the qualification: no port-forward is left behind, and what counts   *)
(* as a rejection was said by a gateway.  Both rest on where the tunnel    *)
(* stands and on what the commands before the current one have             *)
(* established.                                                            *)
(*                                                                         *)
(* Of the native check: its answers are about the binding as last applied, *)
(* what it leaves is settled or named.  These rest on the place of each    *)
(* check in the sequence (OnCourse), on every declaration of a binding     *)
(* differing from the one before (Changing), and on what each cleanup      *)
(* stage can have left (Revoked, Finally).                                 *)
(*                                                                         *)
(* Of both: a release without a fault is qualified (Steady).               *)
(***************************************************************************)
EXTENDS SlotIntroduction, SequenceTheorems, TLAPS

\* Outside a tunnel's block no child runs, and a verdict is given outside it.
Enclosed ==
    /\ tunnel \in {"closed", "popen", "startup", "open", "finally", "lost"}
    /\ tunnel \in {"popen", "startup"} => Qualification[line] = "open"
    /\ tunnel = "closed" => ~Alive
    /\ verdict # "none" => tunnel \in {"closed", "lost"}
    /\ tunnel = "lost" => verdict = "failed"

\* Past the wait, the gateway routes by the current generation.
Awaited ==
    /\ gen \in [Kind -> Nat] /\ observed \in [Kind -> Nat]
    /\ line \in Nat \ {0}
    /\ line > 4 => observed = gen

GInv == Enclosed /\ Awaited

\* Nothing is qualified before the first release.
Unstarted ==
    /\ releases \in Nat
    /\ releases = 0 => tunnel = "closed" /\ verdict = "none"

\* The commands that the proofs need to know the place of.
LEMMA Commands ==
    /\ Qualification[4] = "ready"
    /\ \A i \in 1..3 : Qualification[i] \in {"open", "smoke", "close"}
  <1>1. Qualification[1] = "open" /\ Qualification[2] = "smoke" /\ Qualification[3] = "close"
    BY DEF Qualification
  <1>2. Qualification[4] = "ready" BY DEF Qualification
  <1>3. \A i \in 1..3 : i = 1 \/ i = 2 \/ i = 3 OBVIOUS
  <1>4. QED BY <1>1, <1>2, <1>3

\* Before the first release nothing was started and nothing is concluded.
LEMMA GateStart == SlotInit => GInv /\ Unstarted
  BY DEF SlotInit, GateInit, GInv, Unstarted, Enclosed, Awaited, Alive, Kind

\* A step of the qualification keeps the invariant.
LEMMA GateStep == ASSUME GInv, GateNext PROVE GInv'
  <1> USE DEF GInv, Enclosed, Awaited, Alive, Ended, Doing, Proceed, Throw, Connected, Kind
  <1>1. CASE Ready        BY <1>1 DEF Ready, CurrentConditions, Fault
  <1>2. CASE Positive     BY <1>2, Commands DEF Positive
  <1>3. CASE NegativeHost BY <1>3, Commands DEF NegativeHost
  <1>4. CASE ConnectSni   BY <1>4, Commands DEF ConnectSni, Raised, Fault
  <1>19. CASE HandshakeSni BY <1>19, Commands DEF HandshakeSni, Raised, Fault
  <1>5. CASE Pass         BY <1>5 DEF Pass
  <1>6. CASE Popen        BY <1>6 DEF Popen, Fault
  <1>7. CASE EnterTry     BY <1>7 DEF EnterTry
  <1>8. CASE PortRead     BY <1>8, Commands DEF PortRead
  <1>9. CASE StartupFails BY <1>9 DEF StartupFails
  <1>10. CASE Close       BY <1>10, Commands DEF Close
  <1>11. CASE Terminate   BY <1>11 DEF Terminate
  <1>12. CASE KillAfterWait BY <1>12 DEF KillAfterWait, Kill, Leave, Fault
  <1>13. CASE Reap        BY <1>13 DEF Reap, Leave, Fault
  <1>14. CASE Listen      BY <1>14 DEF Listen
  <1>15. CASE Exit        BY <1>15 DEF Exit
  <1>16. CASE Signal      BY <1>16 DEF Signal
  <1>17. CASE \E k \in Kind : Reconcile(k) BY <1>17 DEF Reconcile
  <1>18. QED BY <1>1, <1>2, <1>3, <1>4, <1>5, <1>6, <1>7, <1>8, <1>9, <1>10, <1>11, <1>12,
              <1>13, <1>14, <1>15, <1>16, <1>17, <1>19 DEF GateNext

\* The RBAC check comes first, and a release starts the qualification anew.
LEMMA SlotStep == GInv /\ Unstarted /\ [SlotNext]_slotVars => GInv' /\ Unstarted'
  <1> SUFFICES ASSUME GInv, Unstarted, [SlotNext]_slotVars PROVE GInv' /\ Unstarted' OBVIOUS
  <1> USE SlotAssumption
  <1>1. CASE Introduce \/ UNCHANGED slotVars
    <2>1. UNCHANGED <<gateVars, releases>> BY <1>1 DEF Introduce, slotVars
    <2>2. QED BY <2>1 DEF GInv, Unstarted, Enclosed, Awaited, Alive, gateVars
  <1>2. CASE Deploy
    <2>1. tunnel = "closed" BY <1>2 DEF Deploy, GInv, Enclosed, Unstarted
    <2>2. line' = 1 /\ child' = "none" /\ UNCHANGED <<observed, tunnel>> BY <1>2 DEF Deploy
    <2>3. gen' = gen \/ gen' = [gen EXCEPT !.route = @ + 1] BY <1>2 DEF Deploy
    <2>4. gen' \in [Kind -> Nat] BY <2>3 DEF GInv, Awaited, Kind
    <2>5. GInv' BY <2>1, <2>2, <2>4 DEF GInv, Enclosed, Awaited, Alive
    <2>6. releases' = releases + 1 BY <1>2 DEF Deploy
    <2>7. Unstarted' BY <2>6 DEF Unstarted
    <2>8. QED BY <2>5, <2>7
  <1>3. CASE Qualify
    <2>1. GInv' BY <1>3, GateStep DEF Qualify
    <2>2. QED BY <1>3, <2>1 DEF Qualify, Unstarted
  <1>4. QED BY <1>1, <1>2, <1>3 DEF SlotNext

\* The invariant always holds.
LEMMA SlotInvariance == SlotSpec => [](GInv /\ Unstarted)
  BY GateStart, SlotStep, PTL DEF SlotSpec

\* No child outlives a check, however many releases, faults and signals there are,
\* unless a signal hit one of the two unprotected windows.
THEOREM TunnelsAreReaped == SlotSpec => []TunnelReaped
  <1>1. GInv => TunnelReaped BY DEF GInv, Enclosed, TunnelReaped
  <1>2. QED BY <1>1, SlotInvariance, PTL

\* Only the two checks of a rejection move past a command that asks for one.
LEMMA RejectionStep ==
  ASSUME GInv, GateNext, line' = line + 1, Qualification[line] \in {"host", "sni"}
  PROVE  /\ observed = gen
         /\ IF Qualification[line] = "host" THEN child = "listening" ELSE socket # "none"
  <1> USE DEF GInv, Awaited, Doing, Proceed, Throw, Connected
  <1>1. line \in Nat /\ line # line + 1 /\ line' # line OBVIOUS
  <1>2. line > 4
    <2>1. Qualification[1] = "open" /\ Qualification[2] = "smoke"
       /\ Qualification[3] = "close" /\ Qualification[4] = "ready"
      BY DEF Qualification
    <2>2. line # 1 /\ line # 2 /\ line # 3 /\ line # 4 BY <2>1
    <2>3. QED BY <2>2
  <1>3. observed = gen BY <1>2
  <1>4. CASE NegativeHost BY <1>1, <1>3, <1>4 DEF NegativeHost
  <1>5. CASE ConnectSni
    <2>1. ~Connected /\ Raised("refused") => line' = line
      BY DEF Raised, Rejections
    <2> QED
      BY <1>1, <1>5, <2>1 DEF ConnectSni
  <1>12. CASE HandshakeSni BY <1>3, <1>12 DEF HandshakeSni
  <1>6. CASE Ready \/ Positive \/ Close BY <1>6 DEF Ready, Positive, Close
  <1>7. CASE PortRead
    <2>1. Qualification[line] = "open" BY <1>7 DEF PortRead, Enclosed
    <2>2. QED BY <2>1
  <1>8. CASE Popen \/ EnterTry \/ Terminate \/ KillAfterWait \/ Reap \/ Listen \/ Exit \/ Pass
    BY <1>1, <1>8 DEF Popen, EnterTry, Terminate, KillAfterWait, Reap, Listen, Exit, Pass
  <1>9. CASE StartupFails \/ Signal BY <1>1, <1>9 DEF StartupFails, Signal
  <1>10. CASE \E k \in Kind : Reconcile(k) BY <1>1, <1>10 DEF Reconcile
  <1>11. QED BY <1>4, <1>5, <1>6, <1>7, <1>8, <1>9, <1>10, <1>12 DEF GateNext

\* What counts as a rejection was met at a gateway that routes by the current
\* generation, by a listener that was there or on a connection it had accepted.
THEOREM RejectionsAreReal == SlotSpec => RejectionIsReal
  <1> DEFINE Real == /\ observed = gen
                     /\ IF Qualification[line] = "host" THEN child = "listening"
                                                       ELSE socket # "none"
  <1>1. ASSUME GInv, [SlotNext]_slotVars
        PROVE [line' = line + 1 /\ Qualification[line] \in {"host", "sni"} => Real]_gateVars
    <2> SUFFICES ASSUME ~UNCHANGED gateVars, line' = line + 1,
                        Qualification[line] \in {"host", "sni"}
                 PROVE  Real
      OBVIOUS
    <2>1. ~Deploy
      <3>1. line \in Nat \ {0} BY <1>1 DEF GInv, Awaited
      <3>2. line' # 1 BY <3>1
      <3>3. QED BY <3>2 DEF Deploy
    <2>2. ~Introduce /\ ~UNCHANGED slotVars BY DEF Introduce, slotVars
    <2>3. GateNext BY <1>1, <2>1, <2>2 DEF SlotNext, Qualify
    <2>4. QED BY <1>1, <2>3, RejectionStep
  <1>2. QED BY <1>1, SlotInvariance, PTL DEF SlotSpec, RejectionIsReal
-----------------------------------------------------------------------------
(* The native RBAC check                                                   *)

\* The commands of the check, by their place.
Place(i, c) ==
    /\ i \in {1, 9} => c = Apply("application", TRUE)
    /\ i = 6 => c = Apply("application", FALSE)
    /\ i \in {2, 4, 10} => c = Ask("application", TRUE)
    /\ i \in {7, 8} => c = Ask("application", FALSE)
    /\ i \in {3, 5, 14} => c = Ask("beyond", FALSE)
    /\ i = 11 => c.op = "render"
    /\ i \in {12, 17} => c = Apply("platform", TRUE)
    /\ i = 13 => c.op = "create" /\ c.on = "platform"
    /\ i = 15 => c = Apply("platform", FALSE)
    /\ i = 16 => c = Ask("platform", FALSE)
    /\ i = 18 => c = Ask("platform", TRUE)

\* They are there.
LEMMA Places ==
  /\ Len(Application) = 10 /\ Len(Checks) = 18
  /\ \A i \in 1..18 : Place(i, Checks[i])
  <1>1. Len(Application) = 10 /\ Len(Checks) = 18
    BY DEF Application, Platform, Checks, Apply, Ask
  <1>2. /\ Checks[1] = Apply("application", TRUE) /\ Checks[6] = Apply("application", FALSE)
        /\ Checks[2] = Ask("application", TRUE) /\ Checks[4] = Ask("application", TRUE)
        /\ Checks[3] = Ask("beyond", FALSE) /\ Checks[5] = Ask("beyond", FALSE)
        /\ Checks[7] = Ask("application", FALSE) /\ Checks[8] = Ask("application", FALSE)
        /\ Checks[9] = Apply("application", TRUE) /\ Checks[10] = Ask("application", TRUE)
    BY DEF Application, Platform, Checks, Apply, Ask
  <1>3. /\ Platform[1].op = "render" /\ Platform[2] = Apply("platform", TRUE)
        /\ Platform[3].op = "create" /\ Platform[3].on = "platform" /\ Platform[4] = Ask("beyond", FALSE)
        /\ Platform[5] = Apply("platform", FALSE) /\ Platform[6] = Ask("platform", FALSE)
        /\ Platform[7] = Apply("platform", TRUE) /\ Platform[8] = Ask("platform", TRUE)
    BY DEF Platform, Apply, Ask
  <1> DEFINE Command == [op : {"apply", "ask", "render", "create"}, on : Binding \cup {"beyond"},
                         value : BOOLEAN]
  <1>4. /\ Application \in Seq(Command) /\ Len(Application) = 10
        /\ Platform \in Seq(Command) /\ Len(Platform) = 8
    BY DEF Application, Platform, Apply, Ask, Binding
  <1> HIDE DEF Command
  <1>5. \A k \in 1..8 : Checks[10 + k] = Platform[k]
    <2>1. \A s, t \in Seq(Command) : \A i \in 1..Len(t) : (s \o t)[Len(s) + i] = t[i]
      BY ConcatProperties
    <2>2. \A i \in 1..Len(Platform) : Checks[Len(Application) + i] = Platform[i]
      BY <1>4, <2>1, Zenon DEF Checks
    <2> QED
      BY <1>4, <2>2
  <1>6. /\ Checks[11] = Platform[1] /\ Checks[12] = Platform[2] /\ Checks[13] = Platform[3]
        /\ Checks[14] = Platform[4] /\ Checks[15] = Platform[5] /\ Checks[16] = Platform[6]
        /\ Checks[17] = Platform[7] /\ Checks[18] = Platform[8]
    BY <1>5
  <1>7. ASSUME NEW i \in 1..18 PROVE Place(i, Checks[i])
    BY <1>2, <1>3, <1>6 DEF Place
  <1> QED
    BY <1>1, <1>7

\* What the command at hand is tells where it stands, and the reverse.
LEMMA Where ==
  ASSUME at \in 1..18
  PROVE  /\ Place(at, Current)
         /\ Current.op = "apply" => at \in {1, 6, 9, 12, 15, 17}
         /\ Current.op = "ask" => at \in {2, 3, 4, 5, 7, 8, 10, 14, 16, 18}
         /\ Current.op = "create" => at = 13
         /\ Current.op = "render" => at = 11
  <1>1. Place(at, Current)
    BY Places DEF Current
  <1>2. CASE at \in {1, 6, 9, 12, 15, 17}
    <2>1. Current.op = "apply"
      BY <1>1, <1>2 DEF Place, Apply
    <2> QED
      BY <1>1, <1>2, <2>1
  <1>3. CASE at \in {2, 3, 4, 5, 7, 8, 10, 14, 16, 18}
    <2>1. Current.op = "ask"
      BY <1>1, <1>3 DEF Place, Ask
    <2> QED
      BY <1>1, <1>3, <2>1
  <1>4. CASE at \in {11, 13}
    <2>1. Current.op = IF at = 11 THEN "render" ELSE "create"
      BY <1>1, <1>4 DEF Place
    <2> QED
      BY <1>1, <1>4, <2>1
  <1> QED
    BY <1>2, <1>3, <1>4

\* Each change of a binding is a change.
Alternates(s) == \A i \in 1..(Len(s) - 1) : s[i] # s[i + 1]

\* A log of changes whose last but one entry cannot pass for the last.
LEMMA LastIsNew ==
  ASSUME NEW s \in Seq(BOOLEAN), Alternates(s), NEW n \in 1..Len(s), n >= Len(s) - 1, s[n] = Last(s)
  PROVE  n = Len(s)
  BY DEF Alternates, Last

NativeTypes == NativeTypeOK /\ log \in [Binding -> Seq(BOOLEAN)] /\ seen \in [Binding -> Nat]
Changing == \A b \in Binding : Alternates(log[b])

\* What a declaration applied does to a binding.
LEMMA BindStep ==
  ASSUME NativeTypes, Changing, NEW b \in Binding, NEW v \in BOOLEAN, Bind(b, v)
  PROVE  /\ log' \in [Binding -> Seq(BOOLEAN)] /\ Changing'
         /\ \A c \in Binding : seen[c] \in 1..Len(log'[c])
         /\ Bound(b)' = v
         /\ Len(log'[b]) \in {Len(log[b]), Len(log[b]) + 1}
         /\ \A c \in Binding : c # b => log'[c] = log[c]
  <1>1. \A c \in Binding : log[c] \in Seq(BOOLEAN) /\ Len(log[c]) \in Nat /\ Len(log[c]) > 0
                           /\ seen[c] \in 1..Len(log[c])
    BY DEF NativeTypes, NativeTypeOK
  <1>2. CASE Bound(b) = v
    <2>1. log' = log
      BY <1>2 DEF Bind
    <2> QED
      BY <1>1, <1>2, <2>1 DEF Changing, Bound, NativeTypes
  <1>3. CASE Bound(b) # v
    <2> DEFINE old == log[b]
               new == Append(old, v)
    <2>1. log' = [log EXCEPT ![b] = new]
      BY <1>3 DEF Bind
    <2>2. /\ new \in Seq(BOOLEAN) /\ Len(new) = Len(old) + 1 /\ new[Len(old) + 1] = v
          /\ \A i \in 1..Len(old) : new[i] = old[i]
      BY <1>1, AppendProperties
    <2>3. old[Len(old)] # v /\ Alternates(old) /\ Len(old) \in Nat /\ Len(old) > 0
      BY <1>1, <1>3 DEF Bound, Last, Changing
    <2> HIDE DEF new, old
    <2>4. Alternates(new)
      BY <2>2, <2>3 DEF Alternates
    <2>5. log' \in [Binding -> Seq(BOOLEAN)] /\ log'[b] = new /\ \A c \in Binding : c # b => log'[c] = log[c]
      BY <2>1, <2>2 DEF NativeTypes
    <2>6. Bound(b)' = v
      BY <2>2, <2>5, <2>3 DEF Last, Bound
    <2>7. Changing'
      BY <2>4, <2>5 DEF Changing
    <2>8. Len(log'[b]) = Len(log[b]) + 1
      BY <2>2, <2>5 DEF old
    <2>9. \A c \in Binding : seen[c] \in 1..Len(log'[c])
      BY <1>1, <2>5, <2>8
    <2> QED
      BY <2>5, <2>6, <2>7, <2>8, <2>9
  <1> QED
    BY <1>2, <1>3

\* The straight path, while nothing has been raised: whether a binding names
\* its subject follows from the position, and right before and right after a
\* question the authorizer is at most one change behind.
OnCourse ==
    raised = "none" =>
        /\ cleanup # "no" => at = 19
        /\ Bound("application") <=> (at \in 2..6 \/ at > 9)
        /\ seen["application"] >= Len(log["application"]) - 1
        /\ at \notin {2, 7, 10} => seen["application"] = Len(log["application"])
        /\ cleanup \in {"no", "revoke"} =>
              /\ Bound("platform") <=> (at \notin {16, 17})
              /\ seen["platform"] >= Len(log["platform"]) - 1
              /\ at \notin {16, 18} => seen["platform"] = Len(log["platform"])

\* Without an exception and a cleanup error the same holds of the last revocation.
Revoked ==
    raised = "none" /\ errors = {} =>
        /\ cleanup = "confirm" => ~Bound("platform") /\ seen["platform"] >= Len(log["platform"]) - 1
        /\ cleanup \in {"delete", "record"} \/ outcome = "passed" =>
              ~Bound("platform") /\ seen["platform"] = Len(log["platform"])

\* What the finally block has done, or has on its list of errors.
Concluded == Trying /\ outcome \notin {"none", "cut"}
Finally ==
    /\ cleanup = "no" => raised = "none"
    /\ outcome = "none" <=> cleanup # "over"
    /\ cleanup # "over" => named = {}
    /\ cleanup \notin {"no", "over"} => Trying
    /\ cleanup \in {"no", "revoke", "confirm"} => errors = {}
    /\ cleanup = "confirm" => ~Bound("platform")
    /\ cleanup \in {"delete", "record"} \/ Concluded => ~Bound("platform") \/ "binding" \in errors
    /\ cleanup = "record" \/ Concluded => ~crd \/ "crd" \in errors
    /\ Concluded => named = errors /\ outcome = Outcome
    /\ outcome = "passed" => Concluded

NativeInv == NativeTypes /\ Changing /\ OnCourse /\ Revoked /\ Finally

\* Nothing has been applied or asked yet.
LEMMA NativeStarts == NativeInit => NativeInv
  <1> SUFFICES ASSUME NativeInit PROVE NativeInv
    OBVIOUS
  <1>1. /\ log = [b \in Binding |-> << b = "platform" >>] /\ seen = [b \in Binding |-> 1]
        /\ crd = FALSE /\ at = 1 /\ cleanup = "no" /\ raised = "none" /\ errors = {} /\ named = {}
        /\ outcome = "none" /\ interrupts = 0
    BY DEF NativeInit
  <1>2. /\ \A b \in Binding : log[b] \in Seq(BOOLEAN) /\ Len(log[b]) = 1 /\ seen[b] = 1
        /\ log["application"][1] = FALSE /\ log["platform"][1] = TRUE
    <2>1. /\ log["application"] = << "application" = "platform" >> /\ log["platform"] = << "platform" = "platform" >>
          /\ seen["application"] = 1 /\ seen["platform"] = 1
      BY <1>1 DEF Binding
    <2>2. log["application"] = << FALSE >> /\ log["platform"] = << TRUE >>
      BY <2>1
    <2>3. \A b \in Binding : log[b] \in Seq(BOOLEAN) /\ Len(log[b]) = 1
      <3>1. << FALSE >> \in Seq(BOOLEAN) /\ Len(<< FALSE >>) = 1
        OBVIOUS
      <3>2. << TRUE >> \in Seq(BOOLEAN) /\ Len(<< TRUE >>) = 1
        OBVIOUS
      <3>3. ASSUME NEW b \in Binding PROVE log[b] = << FALSE >> \/ log[b] = << TRUE >>
        BY <2>2 DEF Binding
      <3> QED
        BY <3>1, <3>2, <3>3, Zenon
    <2>4. log["application"][1] = FALSE /\ log["platform"][1] = TRUE
      BY <2>2
    <2> QED
      BY <2>1, <2>3, <2>4 DEF Binding
  <1>3. NativeTypes
    <2>1. log \in [Binding -> Seq(BOOLEAN)] /\ seen \in [Binding -> Nat]
      BY <1>1, <1>2
    <2>2. at \in 1..(Len(Checks) + 1) /\ interrupts \in 0..MaxInterrupts
      BY <1>1, Places, NativeAssumption
    <2>3. crd \in BOOLEAN /\ errors \subseteq {"binding", "crd"} /\ named \subseteq {"binding", "crd"}
      BY <1>1
    <2>4. \A b \in Binding : log[b] \in Seq(BOOLEAN) /\ seen[b] \in 1..Len(log[b])
      BY <1>2
    <2>5. /\ cleanup \in {"no", "revoke", "confirm", "delete", "record", "over"}
          /\ raised \in {"none", "failure", "interrupt"}
          /\ outcome \in {"none", "passed", "failure", "runtime", "interrupt", "cut"}
      BY <1>1
    <2> QED
      BY <2>1, <2>2, <2>3, <2>4, <2>5 DEF NativeTypes, NativeTypeOK
  <1>4. Changing
    BY <1>2 DEF Changing, Alternates
  <1>5. ~Bound("application") /\ Bound("platform")
    BY <1>2 DEF Bound, Last, Binding
  <1>6. OnCourse /\ Revoked /\ Finally
    BY <1>1, <1>2, <1>5 DEF OnCourse, Revoked, Finally, Concluded, Binding
  <1> QED
    BY <1>3, <1>4, <1>6 DEF NativeInv

\* An exception on the straight path.
LEMMA RaiseStays ==
  ASSUME NativeInv, cleanup = "no", NEW kind \in {"failure", "interrupt"}, Raise(kind),
         NativeTypes', Changing', UNCHANGED <<errors, named>>
  PROVE  NativeInv'
  <1>1. raised' = kind /\ raised' # "none" /\ at' = at /\ (Trying' <=> Trying)
    BY DEF Raise, Trying
  <1>2. OnCourse' /\ Revoked'
    BY <1>1 DEF OnCourse, Revoked
  <1>3. Finally'
    BY <1>1 DEF NativeInv, Finally, Concluded, Raise
  <1> QED
    BY <1>2, <1>3 DEF NativeInv

\* The parts of a command.
LEMMA Parts ==
  ASSUME NEW b, NEW v
  PROVE  /\ Apply(b, v).op = "apply" /\ Apply(b, v).on = b /\ Apply(b, v).value = v
         /\ Ask(b, v).op = "ask" /\ Ask(b, v).on = b /\ Ask(b, v).value = v
  BY DEF Apply, Ask

\* A declaration applied.
LEMMA ApplyStays ==
  ASSUME NativeInv, ApplyBinding PROVE NativeInv'
  <1> USE DEF NativeInv
  <1>1. at \in 1..18 /\ Current.op = "apply" /\ cleanup = "no" /\ raised = "none"
    BY Places DEF ApplyBinding, At, NativeTypes, NativeTypeOK, Finally
  <1>2. at \in {1, 6, 9, 12, 15, 17} /\ Place(at, Current)
    BY <1>1, Where
  <1>3. PICK b \in Binding, v \in BOOLEAN :
           /\ Current = Apply(b, v)
           /\ b = IF at < 11 THEN "application" ELSE "platform"
           /\ v <=> at \notin {6, 15}
    <2>1. CASE at \in {1, 9}
      <3>1. Current = Apply("application", TRUE) /\ "application" \in Binding
        BY <1>2, <2>1 DEF Place, Binding
      <3>2. "application" = (IF at < 11 THEN "application" ELSE "platform") /\ (TRUE <=> at \notin {6, 15})
        BY <2>1
      <3> QED
        BY <3>1, <3>2, Zenon
    <2>2. CASE at = 6
      <3>1. Current = Apply("application", FALSE) /\ "application" \in Binding
        BY <1>2, <2>2 DEF Place, Binding
      <3>2. "application" = (IF at < 11 THEN "application" ELSE "platform") /\ (FALSE <=> at \notin {6, 15})
        BY <2>2
      <3> QED
        BY <3>1, <3>2, Zenon
    <2>3. CASE at \in {12, 17}
      <3>1. Current = Apply("platform", TRUE) /\ "platform" \in Binding
        BY <1>2, <2>3 DEF Place, Binding
      <3>2. "platform" = (IF at < 11 THEN "application" ELSE "platform") /\ (TRUE <=> at \notin {6, 15})
        BY <2>3
      <3> QED
        BY <3>1, <3>2, Zenon
    <2>4. CASE at = 15
      <3>1. Current = Apply("platform", FALSE) /\ "platform" \in Binding
        BY <1>2, <2>4 DEF Place, Binding
      <3>2. "platform" = (IF at < 11 THEN "application" ELSE "platform") /\ (FALSE <=> at \notin {6, 15})
        BY <2>4
      <3> QED
        BY <3>1, <3>2, Zenon
    <2> QED
      BY <1>2, <2>1, <2>2, <2>3, <2>4
  <1>4. Current.on = b /\ Current.value = v
    BY <1>3, Parts
  <1>5. \/ Bind(b, v) /\ Advance
        \/ (Bind(b, v) \/ UNCHANGED log) /\ Raise("failure")
    BY <1>4 DEF ApplyBinding
  <1>6. /\ log' \in [Binding -> Seq(BOOLEAN)] /\ Changing'
        /\ \A c \in Binding : seen[c] \in 1..Len(log'[c])
    <2>1. CASE Bind(b, v)
      BY <2>1, BindStep
    <2>2. CASE log' = log
      BY <2>2 DEF NativeTypes, NativeTypeOK, Changing
    <2> QED
      BY <1>5, <2>1, <2>2
  <1>7. NativeTypes'
    <2>1. at' \in 1..19 /\ raised' \in {"none", "failure"}
          /\ cleanup' \in {"no", "revoke", "over"} /\ outcome' \in {"none", "failure"}
      BY <1>1, <1>5 DEF Advance, Raise, Finally
    <2>2. at' \in 1..(Len(Checks) + 1)
      BY <2>1, Places
    <2>3. UNCHANGED <<seen, crd, errors, named, interrupts>>
      BY DEF ApplyBinding
    <2> QED
      BY <1>6, <2>1, <2>2, <2>3 DEF NativeTypes, NativeTypeOK
  <1>8. CASE Raise("failure")
    BY <1>1, <1>6, <1>7, <1>8, RaiseStays DEF ApplyBinding
  <1>9. CASE Bind(b, v) /\ Advance
    <2>1. /\ Bound(b)' = v
          /\ Len(log'[b]) \in {Len(log[b]), Len(log[b]) + 1}
          /\ \A c \in Binding : c # b => log'[c] = log[c]
      BY <1>9, BindStep
    <2>2. /\ at' = at + 1 /\ UNCHANGED <<seen, cleanup, raised, outcome, errors, named, crd>>
      BY <1>9 DEF ApplyBinding, Advance
    <2>3. \A c \in Binding : Len(log[c]) \in Nat /\ Len(log'[c]) \in Nat /\ seen[c] \in Nat
      BY <1>6 DEF NativeTypes
    <2>4. OnCourse'
      <3>1. CASE at < 11
        <4>1. b = "application" /\ log'["platform"] = log["platform"] /\ at \in {1, 6, 9}
          BY <1>2, <1>3, <2>1, <3>1 DEF Binding
        <4>2. Bound("platform")' = Bound("platform")
          BY <4>1 DEF Bound
        <4>3. Bound("application")' <=> at' # 7
          BY <1>3, <2>1, <2>2, <4>1
        <4> QED
          BY <1>1, <2>1, <2>2, <2>3, <4>1, <4>2, <4>3 DEF OnCourse, Binding
      <3>2. CASE at > 11
        <4>1. b = "platform" /\ log'["application"] = log["application"] /\ at \in {12, 15, 17}
          BY <1>2, <1>3, <2>1, <3>2 DEF Binding
        <4>2. Bound("application")' = Bound("application")
          BY <4>1 DEF Bound
        <4>3. Bound("platform")' <=> at' # 16
          BY <1>3, <2>1, <2>2, <4>1
        <4>4. at = 12 => log' = log
          <5>1. at = 12 => Bound("platform") = TRUE /\ v = TRUE
            BY <1>1, <1>3 DEF OnCourse
          <5> QED
            BY <1>9, <4>1, <5>1 DEF Bind
        <4> QED
          BY <1>1, <2>1, <2>2, <2>3, <4>1, <4>2, <4>3, <4>4 DEF OnCourse, Binding
      <3> QED
        BY <1>2, <3>1, <3>2
    <2>5. Revoked' /\ Finally'
      BY <1>1, <2>2 DEF Revoked, Finally, Concluded
    <2> QED
      BY <1>6, <1>7, <2>4, <2>5
  <1> QED
    BY <1>5, <1>8, <1>9

\* An answer that is the expected one is about the binding as last applied.
LEMMA AnswerIsCurrent ==
  ASSUME NativeInv, cleanup = "no", at \in 1..18, NEW b \in Binding, at' = at + 1,
         \/ Current.op = "ask" /\ Current.on = b
            /\ (IF Current.value THEN Allowed(Current.on) ELSE Refused(Current.on))
         \/ Current.op = "create" /\ Current.on = b
  PROVE  seen[b] = Len(log[b])
  <1>1. raised = "none" /\ OnCourse /\ Place(at, Current)
    BY Where DEF NativeInv, Finally
  <1>2. /\ log[b] \in Seq(BOOLEAN) /\ seen[b] \in 1..Len(log[b]) /\ Alternates(log[b])
    BY DEF NativeInv, NativeTypes, NativeTypeOK, Changing
  <1>3. CASE Current.op = "create"
    <2>1. at = 13 /\ Current.on = b
      BY <1>3, Where, Places DEF Place, Ask
    <2>2. b = "platform"
      BY <1>1, <2>1 DEF Place
    <2> QED
      BY <1>1, <2>1, <2>2 DEF OnCourse
  <1>4. CASE Current.op = "ask"
    <2>1. at \in {2, 3, 4, 5, 7, 8, 10, 14, 16, 18}
      BY <1>4, Where
    <2>2. CASE at \in {3, 5, 14}
      <3>1. Current = Ask("beyond", FALSE)
        BY <1>1, <2>2 DEF Place
      <3> QED
        <4>1. Current.on = b
          BY <1>4
        <4>2. Current.on = "beyond"
          <5>1. Ask("beyond", FALSE).on = "beyond"
            BY Parts
          <5> QED
            BY <3>1, <5>1
        <4> QED
          BY <4>1, <4>2 DEF Binding
    <2>3. ASSUME NEW c \in Binding, NEW v \in BOOLEAN, Current = Ask(c, v), Bound(c) <=> v,
                 seen[c] >= Len(log[c]) - 1
          PROVE  seen[b] = Len(log[b])
      <3>1. c = b /\ Current.on = b /\ Current.value = v
        BY <1>4, <2>3, Parts
      <3>2. Enforced(b) <=> v
        BY <1>4, <3>1 DEF Allowed, Refused
      <3>3. log[b][seen[b]] = Last(log[b])
        <4>1. log[b][seen[b]] \in BOOLEAN /\ Last(log[b]) \in BOOLEAN
          BY <1>2 DEF Last
        <4> QED
          BY <2>3, <3>1, <3>2, <4>1 DEF Enforced, Bound
      <3> QED
        BY <1>2, <2>3, <3>1, <3>3, LastIsNew
    <2>4. CASE at \in {2, 4, 10}
      <3>1. Current = Ask("application", TRUE) /\ "application" \in Binding
        BY <1>1, <2>4 DEF Place, Binding
      <3>2. Bound("application") /\ seen["application"] >= Len(log["application"]) - 1
        BY <1>1, <2>4 DEF OnCourse
      <3> QED
        BY <2>3, <3>1, <3>2
    <2>5. CASE at \in {7, 8}
      <3>1. Current = Ask("application", FALSE) /\ "application" \in Binding
        BY <1>1, <2>5 DEF Place, Binding
      <3>2. ~Bound("application") /\ seen["application"] >= Len(log["application"]) - 1
        BY <1>1, <2>5 DEF OnCourse
      <3> QED
        BY <2>3, <3>1, <3>2
    <2>6. CASE at = 16
      <3>1. Current = Ask("platform", FALSE) /\ "platform" \in Binding
        BY <1>1, <2>6 DEF Place, Binding
      <3>2. ~Bound("platform") /\ seen["platform"] >= Len(log["platform"]) - 1
        BY <1>1, <2>6 DEF OnCourse
      <3> QED
        BY <2>3, <3>1, <3>2
    <2>7. CASE at = 18
      <3>1. Current = Ask("platform", TRUE) /\ "platform" \in Binding
        BY <1>1, <2>7 DEF Place, Binding
      <3>2. Bound("platform") /\ seen["platform"] >= Len(log["platform"]) - 1
        BY <1>1, <2>7 DEF OnCourse
      <3> QED
        BY <2>3, <3>1, <3>2
    <2> QED
      BY <2>1, <2>2, <2>4, <2>5, <2>6, <2>7
  <1> QED
    BY <1>3, <1>4

\* Steps that leave the bindings' logs alone keep what follows from them.
LEMMA SameLogs ==
  ASSUME NativeInv, UNCHANGED log
  PROVE  Changing' /\ \A b \in Binding : Bound(b)' = Bound(b)
  BY DEF NativeInv, Changing, Bound

\* Which binding the questions after a change are about.
LEMMA AskedOf ==
  ASSUME Place(at, Current)
  PROVE  /\ at \in {2, 7, 10} => Current.on = "application"
         /\ at \in {16, 18} => Current.on = "platform"
  <1>1. ASSUME at \in {2, 10} PROVE Current.on = "application"
    <2>1. Current = Ask("application", TRUE)
      BY <1>1 DEF Place
    <2> QED
      BY <2>1, Parts
  <1>2. ASSUME at = 7 PROVE Current.on = "application"
    <2>1. Current = Ask("application", FALSE)
      BY <1>2 DEF Place
    <2> QED
      BY <2>1, Parts
  <1>3. ASSUME at = 16 PROVE Current.on = "platform"
    <2>1. Current = Ask("platform", FALSE)
      BY <1>3 DEF Place
    <2> QED
      BY <2>1, Parts
  <1>4. ASSUME at = 18 PROVE Current.on = "platform"
    <2>1. Current = Ask("platform", TRUE)
      BY <1>4 DEF Place
    <2> QED
      BY <2>1, Parts
  <1> QED
    BY <1>1, <1>2, <1>3, <1>4

\* A question asked.
LEMMA ProbeStays ==
  ASSUME NativeInv, Probe PROVE NativeInv'
  <1> USE DEF NativeInv
  <1>1. /\ at \in 1..18 /\ Current.op = "ask" /\ cleanup = "no" /\ raised = "none"
        /\ UNCHANGED <<log, seen, crd, errors, named, interrupts>>
    BY Places DEF Probe, At, NativeTypes, NativeTypeOK, Finally
  <1>2. at \in {2, 3, 4, 5, 7, 8, 10, 14, 16, 18} /\ Place(at, Current)
    BY <1>1, Where
  <1>3. NativeTypes'
    <2>1. at' \in 1..(Len(Checks) + 1) /\ raised' \in {"none", "failure"}
          /\ cleanup' \in {"no", "revoke", "over"} /\ outcome' \in {"none", "failure"}
      BY <1>1, Places DEF Probe, Advance, Raise, Finally
    <2> QED
      BY <1>1, <2>1 DEF NativeTypes, NativeTypeOK
  <1>4. Changing' /\ \A b \in Binding : Bound(b)' = Bound(b)
    BY <1>1, SameLogs
  <1>5. CASE Raise("failure")
    BY <1>1, <1>3, <1>4, <1>5, RaiseStays
  <1>6. CASE Advance /\ (IF Current.value THEN Allowed(Current.on) ELSE Refused(Current.on))
    <2>1. /\ at' = at + 1 /\ UNCHANGED <<cleanup, raised, outcome>>
      BY <1>6 DEF Advance
    <2>2. at \in {2, 7, 10} => seen["application"] = Len(log["application"])
      BY <1>1, <1>2, <1>6, <2>1, AskedOf, AnswerIsCurrent DEF Binding
    <2>3. at \in {16, 18} => seen["platform"] = Len(log["platform"])
      BY <1>1, <1>2, <1>6, <2>1, AskedOf, AnswerIsCurrent DEF Binding
    <2>4. OnCourse'
      <3>1. /\ Bound("application")' = Bound("application") /\ Bound("platform")' = Bound("platform")
        BY <1>4 DEF Binding
      <3> QED
        BY <1>1, <1>2, <2>1, <2>2, <2>3, <3>1 DEF OnCourse
    <2>5. Revoked' /\ Finally'
      BY <1>1, <2>1 DEF Revoked, Finally, Concluded
    <2> QED
      BY <1>3, <1>4, <2>4, <2>5
  <1> QED
    BY <1>5, <1>6 DEF Probe

\* The fixture created, both declarations rendered, and the end of the path.
LEMMA OthersStay ==
  ASSUME NativeInv, CreateFixture \/ Render \/ LeaveTry PROVE NativeInv'
  <1> USE DEF NativeInv
  <1>1. /\ cleanup = "no" /\ raised = "none" /\ UNCHANGED <<log, seen, errors, named, interrupts>>
        /\ at \in 1..19
    BY Places DEF CreateFixture, Render, LeaveTry, At, NativeTypes, NativeTypeOK, Finally
  <1>2. \/ LeaveTry /\ at = 19 /\ at' = at /\ cleanup' = "revoke" /\ UNCHANGED <<crd, outcome, raised>>
        \/ at \in {11, 13} /\ Advance
        \/ at \in {11, 13} /\ Raise("failure")
    <2>1. CASE LeaveTry
      BY <1>1, <2>1, Places DEF LeaveTry
    <2>2. CASE CreateFixture \/ Render
      <3>1. at \in 1..18 /\ Current.op \in {"create", "render"}
        BY <1>1, <2>2, Places DEF CreateFixture, Render, At
      <3>2. at \in {11, 13}
        BY <3>1, Where
      <3> QED
        BY <2>2, <3>2 DEF CreateFixture, Render
    <2> QED
      BY <2>1, <2>2
  <1>3. crd' \in BOOLEAN
    <2>1. \A b \in Binding : Enforced(b) \in BOOLEAN
      BY DEF Enforced, NativeTypes, NativeTypeOK
    <2> QED
      BY <2>1 DEF CreateFixture, Render, LeaveTry, NativeTypes, NativeTypeOK, Binding
  <1>4. NativeTypes'
    <2>1. at' \in 1..(Len(Checks) + 1) /\ raised' \in {"none", "failure"}
          /\ cleanup' \in {"no", "revoke", "over"} /\ outcome' \in {"none", "failure"}
      BY <1>1, <1>2, Places DEF Advance, Raise, Finally
    <2> QED
      BY <1>1, <1>3, <2>1 DEF NativeTypes, NativeTypeOK
  <1>5. Changing' /\ Bound("application")' = Bound("application") /\ Bound("platform")' = Bound("platform")
    BY <1>1, SameLogs DEF Binding
  <1>6. CASE Raise("failure")
    BY <1>1, <1>4, <1>5, <1>6, RaiseStays
  <1>7. CASE at \in {11, 13} /\ Advance
    <2>1. OnCourse' /\ Revoked' /\ Finally'
      BY <1>1, <1>5, <1>7 DEF OnCourse, Revoked, Finally, Advance, Concluded
    <2> QED
      BY <1>4, <1>5, <2>1
  <1>8. CASE LeaveTry /\ at = 19 /\ at' = at /\ cleanup' = "revoke" /\ UNCHANGED <<crd, outcome, raised>>
    <2>1. OnCourse' /\ Revoked'
      BY <1>1, <1>5, <1>8 DEF OnCourse, Revoked, Finally
    <2>2. Finally'
      BY <1>1, <1>8, Places DEF Finally, Concluded, Trying
    <2> QED
      BY <1>4, <1>5, <2>1, <2>2
  <1> QED
    BY <1>2, <1>6, <1>7, <1>8

\* The platform identity revoked again, in the finally block.
LEMMA RevokeStays ==
  ASSUME NativeInv, Revoke PROVE NativeInv'
  <1> USE DEF NativeInv
  <1>1. /\ cleanup = "revoke" /\ errors = {} /\ Trying /\ outcome = "none" /\ named = {}
        /\ UNCHANGED <<seen, crd, at, raised, named, outcome, interrupts>>
    BY DEF Revoke, Cleaning, BindingError, Finally
  <1>2. \/ cleanup' = "confirm" /\ Bind("platform", FALSE) /\ errors' = errors
        \/ cleanup' = "delete" /\ errors' = {"binding"} /\ (Bind("platform", FALSE) \/ log' = log)
    BY <1>1 DEF Revoke, Cleaning, BindingError, AfterBindingError
  <1>3. ASSUME Bind("platform", FALSE)
        PROVE  /\ log' \in [Binding -> Seq(BOOLEAN)] /\ Changing'
               /\ \A c \in Binding : seen[c] \in 1..Len(log'[c])
               /\ Bound("platform")' = FALSE
               /\ Len(log'["platform"]) \in {Len(log["platform"]), Len(log["platform"]) + 1}
               /\ log'["application"] = log["application"]
    BY <1>3, BindStep DEF Binding
  <1>4. /\ log' \in [Binding -> Seq(BOOLEAN)] /\ Changing'
        /\ \A c \in Binding : seen[c] \in 1..Len(log'[c])
        /\ log'["application"] = log["application"]
    <2>1. CASE log' = log
      BY <2>1 DEF NativeTypes, NativeTypeOK, Changing
    <2> QED
      BY <1>2, <1>3, <2>1
  <1>5. NativeTypes'
    BY <1>1, <1>2, <1>4 DEF NativeTypes, NativeTypeOK
  <1>6. Bound("application")' = Bound("application") /\ (Trying' <=> Trying) /\ at' = at
    BY <1>1, <1>4 DEF Bound, Trying
  <1>7. OnCourse'
    BY <1>1, <1>2, <1>4, <1>6 DEF OnCourse
  <1>8. Revoked'
    <2> SUFFICES ASSUME raised = "none", cleanup' = "confirm"
                 PROVE  ~Bound("platform")' /\ seen'["platform"] >= Len(log'["platform"]) - 1
      BY <1>1, <1>2 DEF Revoked
    <2>1. seen["platform"] = Len(log["platform"]) /\ Len(log["platform"]) \in Nat
      BY <1>1 DEF OnCourse, NativeTypes, Binding
    <2>2. Bind("platform", FALSE)
      BY <1>2
    <2>3. /\ ~Bound("platform")'
          /\ Len(log'["platform"]) \in {Len(log["platform"]), Len(log["platform"]) + 1}
      BY <1>3, <2>2
    <2>4. seen'["platform"] = Len(log["platform"])
      BY <1>1, <2>1
    <2> QED
      BY <2>1, <2>3, <2>4
  <1>9. Finally'
    <2>1. cleanup' = "confirm" => ~Bound("platform")'
      BY <1>2, <1>3
    <2> QED
      BY <1>1, <1>2, <1>6, <2>1 DEF Finally, Concluded
  <1> QED
    BY <1>4, <1>5, <1>7, <1>8, <1>9

\* The refusal confirmed, the fixture deleted, the errors recorded.
LEMMA FinallyStays ==
  ASSUME NativeInv, Confirm \/ DeleteFixture \/ Record PROVE NativeInv'
  <1> USE DEF NativeInv
  <1>1. /\ cleanup \in {"confirm", "delete", "record"} /\ Trying /\ outcome = "none" /\ named = {}
        /\ UNCHANGED <<log, seen, at, raised, interrupts>>
    BY DEF Confirm, DeleteFixture, Record, Cleaning, BindingError, Finally
  <1>2. /\ Changing' /\ Bound("application")' = Bound("application")
        /\ Bound("platform")' = Bound("platform") /\ Bound("platform") \in BOOLEAN
    <2>1. Bound("platform") \in BOOLEAN
      BY DEF Bound, Last, NativeTypes, NativeTypeOK, Binding
    <2> QED
      BY <1>1, <2>1, SameLogs DEF Binding
  <1>3. (Trying' <=> Trying)
    BY <1>1 DEF Trying
  <1>4. OnCourse'
    BY <1>1, <1>2 DEF OnCourse, Confirm, DeleteFixture, Record, Cleaning, BindingError, AfterBindingError
  <1>5. CASE Confirm
    <2>1. /\ UNCHANGED <<crd, named, outcome>> /\ cleanup = "confirm" /\ cleanup' = "delete"
          /\ errors = {}
          /\ \/ Refused("platform") /\ errors' = {}
             \/ errors' = {"binding"}
      BY <1>5 DEF Confirm, Cleaning, BindingError, AfterBindingError, Finally
    <2>2. NativeTypes'
      BY <1>1, <2>1 DEF NativeTypes, NativeTypeOK
    <2>3. ASSUME raised = "none", errors' = {} PROVE seen["platform"] = Len(log["platform"])
      <3>1. /\ ~Bound("platform") /\ seen["platform"] >= Len(log["platform"]) - 1
            /\ ~Enforced("platform")
        BY <2>1, <2>3 DEF Revoked, Refused
      <3>2. /\ log["platform"] \in Seq(BOOLEAN) /\ Alternates(log["platform"])
            /\ seen["platform"] \in 1..Len(log["platform"])
        BY DEF NativeTypes, NativeTypeOK, Changing, Binding
      <3>3. log["platform"][seen["platform"]] = Last(log["platform"])
        <4>1. log["platform"][seen["platform"]] \in BOOLEAN /\ Last(log["platform"]) \in BOOLEAN
          BY <3>2 DEF Last
        <4> QED
          BY <3>1, <4>1 DEF Enforced, Bound, Binding
      <3> QED
        BY <3>1, <3>2, <3>3, LastIsNew
    <2>4. Revoked'
      BY <1>1, <1>2, <2>1, <2>3 DEF Revoked
    <2>5. Finally'
      BY <1>1, <1>2, <1>3, <2>1 DEF Finally, Concluded
    <2> QED
      BY <1>2, <1>4, <2>2, <2>4, <2>5
  <1>6. CASE DeleteFixture
    <2>1. /\ UNCHANGED <<named, outcome>> /\ cleanup = "delete" /\ cleanup' = "record"
          /\ \/ crd' = FALSE /\ errors' = errors
             \/ crd' \in {crd, FALSE} /\ errors' = errors \cup {"crd"}
      BY <1>6 DEF DeleteFixture, Cleaning
    <2>2. NativeTypes'
      BY <1>1, <2>1 DEF NativeTypes, NativeTypeOK
    <2>3. Revoked'
      BY <1>1, <1>2, <2>1 DEF Revoked
    <2>4. Finally'
      BY <1>1, <1>2, <1>3, <2>1 DEF Finally, Concluded
    <2> QED
      BY <1>2, <1>4, <2>2, <2>3, <2>4
  <1>7. CASE Record
    <2>1. /\ UNCHANGED <<crd, errors>> /\ cleanup = "record" /\ cleanup' = "over"
          /\ named' = errors /\ outcome' = Outcome
      BY <1>1, <1>7 DEF Record, Cleaning
    <2>2. /\ outcome' \in {"passed", "failure", "runtime", "interrupt"}
          /\ outcome' = "passed" => raised = "none" /\ errors = {}
          /\ Outcome' = Outcome
      BY <1>1, <2>1 DEF Outcome, NativeTypes, NativeTypeOK
    <2>3. NativeTypes'
      BY <1>1, <2>1, <2>2 DEF NativeTypes, NativeTypeOK
    <2>4. Revoked'
      BY <1>1, <1>2, <2>1, <2>2 DEF Revoked
    <2>5. Finally'
      BY <1>1, <1>2, <1>3, <2>1, <2>2 DEF Finally, Concluded
    <2> QED
      BY <1>2, <1>4, <2>3, <2>4, <2>5
  <1> QED
    BY <1>5, <1>6, <1>7

\* A signal, and the authorizer taking in a change.
LEMMA OutsideStays ==
  ASSUME NativeInv, Interrupt \/ \E b \in Binding : Authorize(b) PROVE NativeInv'
  <1> USE DEF NativeInv
  <1>1. log' = log /\ UNCHANGED <<crd, errors, named>>
    BY DEF Interrupt, Authorize
  <1>2. /\ Changing' /\ Bound("application")' = Bound("application")
        /\ Bound("platform")' = Bound("platform")
    BY <1>1, SameLogs DEF Binding
  <1>3. CASE Interrupt
    <2>1. interrupts' \in 0..MaxInterrupts /\ seen' = seen
      BY <1>3, NativeAssumption DEF Interrupt, NativeTypes, NativeTypeOK
    <2>2. CASE cleanup = "no"
      <3>1. Raise("interrupt")
        BY <1>3, <2>2 DEF Interrupt
      <3>2. NativeTypes'
        BY <1>1, <2>1, <2>2, <3>1 DEF NativeTypes, NativeTypeOK, Raise
      <3> QED
        BY <1>1, <1>2, <2>2, <3>1, <3>2, RaiseStays
    <2>3. CASE cleanup # "no"
      <3>1. /\ cleanup # "over" /\ cleanup' = "over" /\ outcome' = "cut" /\ UNCHANGED <<raised, at>>
        BY <1>3, <2>3 DEF Interrupt
      <3>2. NativeTypes'
        BY <1>1, <2>1, <3>1 DEF NativeTypes, NativeTypeOK
      <3>3. OnCourse' /\ Revoked' /\ Finally'
        BY <1>1, <1>2, <2>1, <2>3, <3>1 DEF OnCourse, Revoked, Finally, Concluded
      <3> QED
        BY <1>2, <3>2, <3>3
    <2> QED
      BY <2>2, <2>3
  <1>4. CASE \E b \in Binding : Authorize(b)
    <2>1. PICK b \in Binding : Authorize(b)
      BY <1>4
    <2>2. /\ seen[b] < Len(log[b]) /\ seen' = [seen EXCEPT ![b] = seen[b] + 1]
          /\ UNCHANGED <<log, crd, at, cleanup, raised, errors, named, outcome, interrupts>>
      BY <2>1 DEF Authorize
    <2>3. /\ \A c \in Binding : seen[c] \in Nat /\ Len(log[c]) \in Nat /\ seen[c] \in 1..Len(log[c])
          /\ seen' \in [Binding -> Nat] /\ \A c \in Binding : seen'[c] = IF c = b THEN seen[c] + 1 ELSE seen[c]
      BY <2>2 DEF NativeTypes, NativeTypeOK
    <2>4. NativeTypes'
      BY <2>2, <2>3 DEF NativeTypes, NativeTypeOK
    <2>5. OnCourse' /\ Revoked'
      <3>1. /\ \A c \in Binding : Bound(c)' = Bound(c)
            /\ \A c \in Binding : /\ seen[c] = Len(log[c]) => seen'[c] = Len(log'[c])
                                  /\ seen[c] >= Len(log[c]) - 1 => seen'[c] >= Len(log'[c]) - 1
        BY <2>2, <2>3 DEF Bound
      <3>2. OnCourse'
        BY <1>2, <2>2, <3>1 DEF OnCourse, Binding
      <3>3. Revoked'
        BY <1>2, <2>2, <3>1 DEF Revoked, Binding
      <3> QED
        BY <3>2, <3>3
    <2>6. Finally'
      BY <1>2, <2>2 DEF Finally, Concluded, Trying, Outcome
    <2> QED
      BY <1>2, <2>4, <2>5, <2>6
  <1> QED
    BY <1>3, <1>4

\* Every step of the check keeps the invariant.
LEMMA NativeStep ==
  ASSUME NativeInv, NativeNext PROVE NativeInv'
  BY ApplyStays, ProbeStays, OthersStay, RevokeStays, FinallyStays, OutsideStays DEF NativeNext

\* What does not touch the check keeps its invariant.
LEMMA NativeStill ==
  ASSUME NativeInv, UNCHANGED nativeVars PROVE NativeInv'
  <1>1. UNCHANGED <<log, seen, crd, at, cleanup, raised, errors, named, outcome, interrupts>>
    BY DEF nativeVars
  <1>2. NativeTypes' /\ Changing'
    BY <1>1 DEF NativeInv, NativeTypes, NativeTypeOK, Changing
  <1>3. OnCourse' /\ Revoked' /\ Finally'
    BY <1>1 DEF NativeInv, OnCourse, Revoked, Finally, Concluded, Trying, Outcome, Bound
  <1> QED
    BY <1>2, <1>3 DEF NativeInv

\* What a check that passed leaves, and what one that got to the platform does.
LEMMA NativeIsGood ==
  ASSUME NativeInv
  PROVE  /\ IntroducedIsSettled /\ BothCleanups
         /\ outcome = "passed" => Enforced("application") = TRUE
  <1> USE DEF NativeInv
  <1>1. ASSUME outcome = "passed"
        PROVE  /\ raised = "none" /\ errors = {} /\ named = {} /\ cleanup = "over" /\ at = 19 /\ Concluded
    <2>1. Concluded /\ cleanup = "over" /\ named = errors /\ outcome = Outcome
      BY <1>1 DEF Finally
    <2>2. raised = "none" /\ errors = {}
      BY <1>1, <2>1 DEF Outcome, NativeTypes, NativeTypeOK
    <2> QED
      BY <2>1, <2>2 DEF OnCourse
  <1>2. ASSUME outcome = "passed"
        PROVE  /\ Bound("application") /\ seen["application"] = Len(log["application"])
               /\ ~Bound("platform") /\ seen["platform"] = Len(log["platform"])
               /\ ~crd /\ named = {}
    BY <1>1, <1>2 DEF OnCourse, Revoked, Finally
  <1>3. BothCleanups
    BY DEF BothCleanups, Finally, Concluded, Outcome
  <1>4. ASSUME outcome = "passed" PROVE Enforced("application") = TRUE
    <2>1. log["application"][Len(log["application"])] = TRUE
      <3>1. Last(log["application"]) \in BOOLEAN
        BY DEF NativeTypes, NativeTypeOK, Last, Binding
      <3> QED
        BY <1>2, <1>4, <3>1 DEF Bound, Last
    <2> QED
      BY <1>2, <1>4, <2>1 DEF Enforced, Binding
  <1> QED
    BY <1>2, <1>3, <1>4 DEF IntroducedIsSettled

-----------------------------------------------------------------------------
(* The qualification without a fault                                       *)

\* Its commands, each by its places.
LEMMA CommandPlaces ==
    /\ Len(Qualification) = 13
    /\ \A i \in 1..13 : /\ Qualification[i] = "open" <=> i \in {1, 5, 8, 11}
                        /\ Qualification[i] = "close" <=> i \in {3, 7, 10, 13}
                        /\ Qualification[i] = "smoke" <=> i = 2
                        /\ Qualification[i] = "ready" <=> i = 4
                        /\ Qualification[i] = "routes" <=> i = 6
                        /\ Qualification[i] = "host" <=> i = 9
                        /\ Qualification[i] = "sni" <=> i = 12
  BY DEF Qualification

GateTypes ==
    /\ GateTypeOK /\ releases \in 0..MaxReleases
    /\ tunnel \in {"popen", "startup"} => line <= 13

\* Without a fault or a signal nothing is under way but the commands: the place
\* tells where the tunnel stands, and the tunnel that its child is there.
Steady ==
    faults = 0 /\ signals = 0 =>
        /\ error = "none" /\ verdict # "failed" /\ tunnel # "lost"
        /\ tunnel \in {"popen", "startup", "open"} => ~stopping
        /\ tunnel \in {"popen", "startup"} => line \in {1, 5, 8, 11} /\ child \in {"starting", "listening"}
        /\ tunnel = "open" => line \in {2, 3, 6, 7, 9, 10, 12, 13}
        /\ tunnel = "open" /\ line \in {2, 6, 9, 12} => child = "listening"
        /\ tunnel \in {"closed", "finally"} => line \in {1, 4, 5, 8, 11, 14}
        /\ tunnel = "finally" => line # 1
        /\ socket # "cut" /\ (socket = "up" => tunnel = "open" /\ line = 12)

\* Only a slot whose check has passed is released to.
Admitted == releases > 0 => outcome = "passed"

SlotInv == GInv /\ Unstarted /\ NativeInv /\ GateTypes /\ Steady /\ Admitted

\* Both parts as they start.
LEMMA SlotStarts == SlotInit => SlotInv
  <1> SUFFICES ASSUME SlotInit PROVE SlotInv
    OBVIOUS
  <1>1. GInv /\ Unstarted /\ NativeInv
    BY GateStart, NativeStarts DEF SlotInit
  <1>2. /\ gen = [gateway |-> 1, route |-> 0] /\ observed \in {[gateway |-> g, route |-> 0] : g \in 0..1}
        /\ line = 1 /\ child = "none" /\ stopping = FALSE /\ socket = "none" /\ tunnel = "closed"
        /\ error = "none" /\ verdict = "none" /\ faults = 0 /\ signals = 0 /\ releases = 0
    BY DEF SlotInit, GateInit
  <1>3. GateTypes
    <2>1. gen \in [Kind -> Nat] /\ observed \in [Kind -> Nat]
      BY <1>1 DEF GInv, Awaited
    <2>2. faults \in 0..MaxFaults /\ signals \in 0..MaxSignals /\ releases \in 0..MaxReleases
      BY <1>2, GatewayAssumption, SlotAssumption
    <2>3. line \in 1..(Len(Qualification) + 1)
      BY <1>2, CommandPlaces
    <2> QED
      BY <1>2, <2>1, <2>2, <2>3 DEF GateTypes, GateTypeOK
  <1>4. Steady /\ Admitted
    BY <1>2 DEF Steady, Admitted
  <1> QED
    BY <1>1, <1>3, <1>4 DEF SlotInv

\* Every step of the qualification keeps the types.
LEMMA GateTypesStay ==
  ASSUME GInv, GInv', GateTypes, GateNext, UNCHANGED releases PROVE GateTypes'
  <1> USE DEF GateTypes, GateTypeOK, Doing, Proceed, Throw, Fault
  <1>1. gen' \in [Kind -> Nat] /\ observed' \in [Kind -> Nat]
    BY DEF GInv, Awaited
  <1>2. Len(Qualification) = 13 /\ MaxFaults \in Nat /\ MaxSignals \in Nat
    BY CommandPlaces, GatewayAssumption
  <1>3. CASE Ready BY <1>1, <1>2, <1>3 DEF Ready
  <1>4. CASE Positive BY <1>1, <1>2, <1>4 DEF Positive
  <1>5. CASE NegativeHost BY <1>1, <1>2, <1>5 DEF NegativeHost
  <1>15. CASE ConnectSni \/ HandshakeSni
    BY <1>1, <1>2, <1>15 DEF ConnectSni, HandshakeSni, Raised
  <1>6. CASE Pass \/ EnterTry BY <1>1, <1>2, <1>6 DEF Pass, EnterTry
  <1>16. CASE Popen
    <2>1. line' = line /\ line <= 13
      BY <1>2, <1>16 DEF Popen
    <2>3. faults' = faults \/ (faults < MaxFaults /\ faults' = faults + 1)
      BY <1>16 DEF Popen
    <2>4. faults' \in 0..MaxFaults
      BY <1>2, <2>3
    <2>5. stopping' = FALSE \/ stopping' = stopping
      BY <1>16 DEF Popen
    <2>2. /\ UNCHANGED <<gen, observed, socket, signals>>
          /\ child' \in {child, "starting"} /\ tunnel' \in {tunnel, "popen", "finally"}
          /\ error' \in {error, "failure"} /\ verdict' \in {verdict, "failed"}
      BY <1>16 DEF Popen
    <2> QED
      <3>1. stopping' \in BOOLEAN
        BY <2>5
      <3>2. /\ line' \in 1..(Len(Qualification) + 1) /\ socket' \in {"none", "up", "cut"}
            /\ signals' \in 0..MaxSignals /\ releases' \in 0..MaxReleases
        BY <2>1, <2>2
      <3>3. /\ child' \in {"none", "starting", "listening", "dead", "ended"}
            /\ tunnel' \in {"closed", "popen", "startup", "open", "finally", "lost"}
            /\ error' \in {"none", "failure", "interrupt"} /\ verdict' \in {"none", "passed", "failed"}
        BY <2>2
      <3> QED
        BY <1>1, <2>1, <2>4, <3>1, <3>2, <3>3
  <1>7. CASE PortRead BY <1>1, <1>2, <1>7 DEF PortRead
  <1>8. CASE StartupFails
    <2>1. faults' \in 0..MaxFaults
      BY <1>2, <1>8 DEF StartupFails
    <2>2. /\ tunnel' = "finally" /\ error' = "failure"
          /\ UNCHANGED <<gen, observed, line, child, stopping, socket, verdict, signals>>
      BY <1>8 DEF StartupFails
    <2> QED
      BY <1>1, <1>2, <2>1, <2>2
  <1>9. CASE Close
    <2>1. line' \in 1..14
      BY <1>2, <1>9 DEF Close
    <2> QED
      BY <1>1, <1>2, <1>9, <2>1 DEF Close
  <1>14. CASE Terminate BY <1>1, <1>2, <1>14 DEF Terminate
  <1>10. CASE KillAfterWait \/ Reap BY <1>1, <1>2, <1>10 DEF KillAfterWait, Kill, Reap, Leave
  <1>11. CASE Listen \/ Exit BY <1>1, <1>2, <1>11 DEF Listen, Exit
  <1>12. CASE Signal BY <1>1, <1>2, <1>12 DEF Signal
  <1>13. CASE \E k \in Kind : Reconcile(k) BY <1>1, <1>2, <1>13 DEF Reconcile
  <1> QED
    BY <1>3, <1>4, <1>5, <1>6, <1>7, <1>8, <1>9, <1>10, <1>11, <1>12, <1>13, <1>14,
       <1>15, <1>16 DEF GateNext

\* Every step without a fault goes on with the qualification.
LEMMA SteadyStays ==
  ASSUME GInv, GateTypes, Steady, GateNext PROVE Steady'
  <1> SUFFICES ASSUME faults' = 0, signals' = 0 PROVE Steady'
    BY DEF Steady
  <1> USE DEF Doing, Proceed, Throw, Fault
  <1>1. /\ faults \in Nat /\ signals \in Nat /\ line \in 1..14 /\ stopping \in BOOLEAN
    BY CommandPlaces, GatewayAssumption DEF GateTypes, GateTypeOK
  <1>2. /\ faults = 0 /\ signals = 0 /\ faults' # faults + 1 /\ signals' # signals + 1
        /\ ~Signal
    <2>1. faults' \in {faults, faults + 1} /\ signals' \in {signals, signals + 1}
      BY DEF GateNext, Ready, Positive, NegativeHost, ConnectSni, HandshakeSni, Raised, Pass, Popen,
             EnterTry, PortRead, StartupFails, Close, Terminate, KillAfterWait, Reap, Leave, Listen, Exit, Reconcile, Signal
    <2> QED
      BY <1>1, <2>1 DEF Signal
  <1>3. /\ error = "none" /\ verdict # "failed" /\ tunnel # "lost"
        /\ tunnel \in {"popen", "startup", "open"} => ~stopping
        /\ tunnel \in {"popen", "startup"} => line \in {1, 5, 8, 11} /\ child \in {"starting", "listening"}
        /\ tunnel = "open" => line \in {2, 3, 6, 7, 9, 10, 12, 13}
        /\ tunnel = "open" /\ line \in {2, 6, 9, 12} => child = "listening"
        /\ tunnel \in {"closed", "finally"} => line \in {1, 4, 5, 8, 11, 14}
        /\ tunnel = "finally" => line # 1
        /\ socket # "cut" /\ (socket = "up" => tunnel = "open" /\ line = 12)
    BY <1>2 DEF Steady
  <1>4. CASE Ready
    BY <1>1, <1>2, <1>3, <1>4, CommandPlaces DEF Ready, Steady
  <1>5. CASE Positive
    <2>1. line \in {2, 6} /\ tunnel = "open" /\ Connected
      BY <1>1, <1>3, <1>5, CommandPlaces DEF Positive, Connected
    <2>2. line = 6 => observed = gen
      BY DEF GInv, Awaited
    <2>3. Doing("routes") => line = 6
      BY <1>1, CommandPlaces
    <2> QED
      BY <1>1, <1>2, <1>3, <1>5, <2>1, <2>2, <2>3 DEF Positive, Steady
  <1>6. CASE NegativeHost
    <2>1. line = 9 /\ tunnel = "open" /\ Connected
      BY <1>1, <1>3, <1>6, CommandPlaces DEF NegativeHost, Connected
    <2> QED
      BY <1>1, <1>2, <1>3, <1>6, <2>1 DEF NegativeHost, Steady
  <1>7. CASE ConnectSni
    <2>1. line = 12 /\ tunnel = "open" /\ Connected
      BY <1>1, <1>3, <1>7, CommandPlaces DEF ConnectSni, Connected
    <2> QED
      BY <1>1, <1>2, <1>3, <1>7, <2>1 DEF ConnectSni, Steady
  <1>19. CASE HandshakeSni
    <2>1. line = 12 /\ tunnel = "open" /\ socket = "up"
      BY <1>1, <1>3, <1>19 DEF HandshakeSni, GateTypes, GateTypeOK
    <2>2. line' = 13 /\ socket' = "none" /\ UNCHANGED <<error, tunnel, verdict, stopping>>
      BY <1>2, <2>1, <1>19 DEF HandshakeSni, Raised, Rejections
    <2> QED
      BY <1>3, <2>1, <2>2 DEF Steady
  <1>8. CASE Pass
    BY <1>1, <1>2, <1>3, <1>8 DEF Pass, Steady
  <1>9. CASE Popen
    BY <1>1, <1>2, <1>3, <1>9, CommandPlaces DEF Popen, Steady
  <1>10. CASE EnterTry
    BY <1>1, <1>2, <1>3, <1>10 DEF EnterTry, Steady
  <1>11. CASE PortRead
    BY <1>1, <1>2, <1>3, <1>11 DEF PortRead, Steady
  <1>12. CASE StartupFails
    BY <1>1, <1>2, <1>3, <1>12 DEF StartupFails, Ended
  <1>13. CASE Close
    BY <1>1, <1>2, <1>3, <1>13, CommandPlaces DEF Close, Steady
  <1>14. CASE Terminate
    BY <1>1, <1>2, <1>3, <1>14 DEF Terminate, Steady
  <1>15. CASE KillAfterWait \/ Reap
    BY <1>1, <1>2, <1>3, <1>15 DEF KillAfterWait, Reap, Leave, Steady
  <1>16. CASE Listen
    BY <1>1, <1>2, <1>3, <1>16 DEF Listen, Steady
  <1>17. CASE Exit
    BY <1>1, <1>2, <1>3, <1>17 DEF Exit, Steady, Alive
  <1>18. CASE \E k \in Kind : Reconcile(k)
    BY <1>1, <1>2, <1>3, <1>18 DEF Reconcile, Steady
  <1> QED
    BY <1>2, <1>4, <1>5, <1>6, <1>7, <1>8, <1>9, <1>10, <1>11, <1>12, <1>13, <1>14, <1>15, <1>16,
       <1>17, <1>18, <1>19 DEF GateNext

\* Every step of the slot keeps the invariant.
LEMMA SlotInvStep == SlotInv /\ [SlotNext]_slotVars => SlotInv'
  <1> SUFFICES ASSUME SlotInv, [SlotNext]_slotVars PROVE SlotInv'
    OBVIOUS
  <1>0. GInv' /\ Unstarted'
    BY SlotStep DEF SlotInv
  <1>1. CASE Introduce \/ UNCHANGED slotVars
    <2>1. UNCHANGED gateVars /\ UNCHANGED releases /\ (NativeNext \/ UNCHANGED nativeVars)
      BY <1>1 DEF Introduce, slotVars
    <2>2. NativeInv'
      BY <2>1, NativeStep, NativeStill DEF SlotInv
    <2>3. UNCHANGED <<gen, observed, line, child, stopping, socket, tunnel, error, verdict, faults, signals, releases>>
      BY <2>1 DEF gateVars
    <2>4. GateTypes' /\ Steady'
      BY <2>3 DEF SlotInv, GateTypes, GateTypeOK, Steady
    <2>5. Admitted'
      <3>1. outcome = "passed" => outcome' = "passed"
        BY <2>1 DEF SlotInv, NativeInv, Finally, NativeNext, ApplyBinding, Probe, CreateFixture, Render,
           At, LeaveTry, Revoke, Confirm, BindingError, DeleteFixture, Record, Cleaning, Interrupt,
           Authorize, nativeVars
      <3> QED
        BY <2>3, <3>1 DEF SlotInv, Admitted
    <2> QED
      BY <1>0, <2>2, <2>4, <2>5 DEF SlotInv
  <1>2. CASE Deploy
    <2>1. NativeInv' /\ outcome' = "passed" /\ Enforced("application") = TRUE /\ outcome = "passed"
      <3>1. UNCHANGED nativeVars /\ outcome = "passed"
        BY <1>2 DEF Deploy
      <3> QED
        BY <3>1, NativeStill, NativeIsGood DEF SlotInv, nativeVars
    <2>2. /\ releases < MaxReleases /\ releases' = releases + 1 /\ line' = 1 /\ child' = "none"
          /\ stopping' = FALSE /\ UNCHANGED <<observed, socket, tunnel, error, signals>>
          /\ tunnel = "closed" \/ tunnel = "lost"
      BY <1>2 DEF Deploy, SlotInv, GInv, Enclosed, Unstarted
    <2>3. \/ faults' = faults /\ verdict' = "none"
          \/ faults < MaxFaults /\ faults' = faults + 1 /\ verdict' = "failed"
      BY <1>2, <2>1 DEF Deploy, Fault
    <2>4. GateTypes'
      <3>1. gen' \in [Kind -> Nat] /\ observed' \in [Kind -> Nat]
        BY <1>0 DEF GInv, Awaited
      <3>2. line' \in 1..(Len(Qualification) + 1) /\ releases' \in 0..MaxReleases /\ faults' \in 0..MaxFaults
        BY <2>2, <2>3, CommandPlaces, GatewayAssumption, SlotAssumption DEF SlotInv, GateTypes, GateTypeOK
      <3>3. verdict' \in {"none", "failed"}
        BY <2>3
      <3> QED
        BY <2>2, <3>1, <3>2, <3>3 DEF SlotInv, GateTypes, GateTypeOK
    <2>5. Steady'
      <3>1. faults \in Nat
        BY GatewayAssumption DEF SlotInv, GateTypes, GateTypeOK
      <3> QED
        BY <2>2, <2>3, <3>1 DEF SlotInv, Steady
    <2> QED
      BY <1>0, <2>1, <2>4, <2>5 DEF SlotInv, Admitted
  <1>3. CASE Qualify
    <2>1. GateNext /\ UNCHANGED nativeVars /\ releases' = releases
      BY <1>3 DEF Qualify
    <2>2. NativeInv' /\ Admitted'
      BY <2>1, NativeStill DEF SlotInv, nativeVars, Admitted
    <2>3. GateTypes' /\ Steady'
      BY <1>0, <2>1, GateTypesStay, SteadyStays DEF SlotInv
    <2> QED
      BY <1>0, <2>2, <2>3 DEF SlotInv
  <1> QED
    BY <1>1, <1>2, <1>3 DEF SlotNext

-----------------------------------------------------------------------------
(* The theorems about the check and the releases it admits                 *)

\* The invariant of the slot: the check by its place, the tunnel by its place.
THEOREM SlotInductive == SlotSpec => []SlotInv
  BY SlotStarts, SlotInvStep, PTL DEF SlotSpec

\* The variables of the check, of the qualification and of the releases keep
\* their types, for every bound.
THEOREM SlotTypes == SlotSpec => []SlotTypeOK
  <1>1. SlotInv => SlotTypeOK
    BY DEF SlotInv, NativeInv, NativeTypes, GateTypes, SlotTypeOK
  <1> QED
    BY <1>1, SlotInductive, PTL

\* A native check that passed leaves the application bound and authorized, the
\* platform identity revoked and refused, and nothing of the fixture.
THEOREM IntroductionSettles == SlotSpec => []IntroducedIsSettled
  <1>1. SlotInv => IntroducedIsSettled
    BY NativeIsGood DEF SlotInv
  <1> QED
    BY <1>1, SlotInductive, PTL

\* Both cleanup operations run, and what they leave is named.
THEOREM BothCleanupsRun == SlotSpec => []BothCleanups
  <1>1. SlotInv => BothCleanups
    BY NativeIsGood DEF SlotInv
  <1> QED
    BY <1>1, SlotInductive, PTL

\* An expected answer is about the binding as last applied.
THEOREM ExpectedIsCurrent == SlotSpec => AnswersAreCurrent
  <1>1. ASSUME SlotInv, [SlotNext]_slotVars
        PROVE  [at' = at + 1 /\ Current.op \in {"ask", "create"} /\ Current.on \in Binding
                  => seen[Current.on] = Len(log[Current.on])]_nativeVars
    <2> SUFFICES ASSUME ~UNCHANGED nativeVars, at' = at + 1, Current.op \in {"ask", "create"},
                        Current.on \in Binding
                 PROVE  seen[Current.on] = Len(log[Current.on])
      OBVIOUS
    <2>1. NativeNext
      BY <1>1 DEF SlotNext, Introduce, Deploy, Qualify, slotVars
    <2>2. at \in 1..19 /\ at' # at
      BY <1>1, Places DEF SlotInv, NativeInv, NativeTypes, NativeTypeOK
    <2>3. \/ Probe /\ Advance /\ (IF Current.value THEN Allowed(Current.on) ELSE Refused(Current.on))
          \/ CreateFixture
      BY <2>1, <2>2 DEF NativeNext, ApplyBinding, Probe, CreateFixture, Render, At, Advance, Raise, LeaveTry,
         Revoke, Confirm, BindingError, DeleteFixture, Record, Cleaning, Interrupt, Authorize
    <2>4. cleanup = "no" /\ at \in 1..18
      BY <2>2, <2>3, Places DEF Probe, CreateFixture, At
    <2>5. \/ Current.op = "ask" /\ (IF Current.value THEN Allowed(Current.on) ELSE Refused(Current.on))
          \/ Current.op = "create"
      BY <2>3 DEF Probe, CreateFixture, At
    <2> QED
      BY <1>1, <2>4, <2>5, AnswerIsCurrent DEF SlotInv
  <1> QED
    BY <1>1, SlotInductive, PTL DEF SlotSpec, AnswersAreCurrent

\* A slot whose native check passed, and whose releases meet no fault and no
\* signal, qualifies.
THEOREM WithoutFaultPasses == SlotSpec => []FaultlessPasses
  <1>1. SlotInv => FaultlessPasses
    BY GatewayAssumption DEF SlotInv, Steady, GateTypes, GateTypeOK, FaultlessPasses
  <1> QED
    BY <1>1, SlotInductive, PTL
=============================================================================
