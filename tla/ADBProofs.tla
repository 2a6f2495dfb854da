----------------------------- MODULE ADBProofs ------------------------------
(***************************************************************************)
(* Proofs about ADB: for any size of the ring and any number of events that*)
(* fit, and for any moves and reports of the mouse.                        *)
(***************************************************************************)
EXTENDS ADB, TLAPS

\* x % n is the one number in 0 .. n - 1 that differs from x by a multiple of n.
LEMMA ModUnique ==
  ASSUME NEW n \in Nat \ {0}, NEW x \in Int, NEW q \in Int, NEW r \in 0 .. n - 1, x = n * q + r
  PROVE  (x % n) = r
<1>1. (x % n) \in 0 .. n - 1 /\ x = n * (x \div n) + (x % n) /\ (x \div n) \in Int
  OBVIOUS
<1>2. n * (q - (x \div n)) = (x % n) - r
  BY <1>1
<1>3. q - (x \div n) < 1
  <2>1. SUFFICES ASSUME q - (x \div n) >= 1 PROVE FALSE
    BY <1>1
  <2>2. n * (q - (x \div n)) >= n
    BY <2>1, <1>1
  <2>3. QED
    BY <2>2, <1>1, <1>2
<1>4. q - (x \div n) > 0 - 1
  <2>1. SUFFICES ASSUME q - (x \div n) <= 0 - 1 PROVE FALSE
    BY <1>1
  <2>2. n * (q - (x \div n)) <= 0 - n
    BY <2>1, <1>1
  <2>3. QED
    BY <2>2, <1>1, <1>2
<1>5. q = (x \div n)
  BY <1>1, <1>3, <1>4
<1>6. QED
  BY <1>1, <1>5

LEMMA ModRange == ASSUME NEW n \in Nat \ {0}, NEW x \in Int PROVE (x % n) \in 0 .. n - 1
OBVIOUS

\* Below 2n a remainder is a comparison and a subtraction.
LEMMA ModOnce ==
  ASSUME NEW n \in Nat \ {0}, NEW x \in 0 .. 2 * n - 1
  PROVE  (x % n) = IF x < n THEN x ELSE x - n
<1>1. CASE x < n
  BY <1>1
<1>2. CASE ~(x < n)
  BY <1>2
<1>3. QED
  BY <1>1, <1>2

\* Numbers with the same remainder may stand for each other in a difference.
LEMMA ModDifference ==
  ASSUME NEW n \in Nat \ {0}, NEW a \in Int, NEW b \in Int
  PROVE  (((a % n) - b) % n) = ((a - b) % n)
<1> DEFINE q == a \div n
           p == (a - b) \div n
           r == (a - b) % n
<1>1. a = n * q + (a % n) /\ q \in Int /\ (a % n) \in Int
  OBVIOUS
<1>2. a - b = n * p + r /\ p \in Int /\ r \in 0 .. n - 1
  OBVIOUS
<1>3. (a % n) - b = n * (p - q) + r
  <2>1. n * (p - q) = n * p - n * q
    BY <1>1, <1>2
  <2>2. QED
    BY <2>1, <1>1, <1>2
<1>4. p - q \in Int /\ (a % n) - b \in Int
  BY <1>1, <1>2
<1> HIDE DEF q, p, r
<1>5. (((a % n) - b) % n) = r
  BY <1>2, <1>3, <1>4, ModUnique
<1>6. QED
  BY <1>5 DEF r

LEMMA ModNegated ==
  ASSUME NEW n \in Nat \ {0}, NEW x \in Int, (x % n) = 0
  PROVE  ((0 - x) % n) = 0
<1> DEFINE q == x \div n
<1>1. x = n * q /\ q \in Int
  OBVIOUS
<1>2. 0 - x = n * (0 - q) + 0 /\ 0 - q \in Int /\ 0 - x \in Int /\ 0 \in 0 .. n - 1
  BY <1>1
<1> HIDE DEF q
<1>3. QED
  BY <1>2, ModUnique

-----------------------------------------------------------------------------
(* The mouse.                                                              *)

MouseTypes ==
  /\ mouse \in Moves /\ mx \in Moves /\ old_mouse \in Moves
  /\ mouse_button \in BOOLEAN /\ old_mouse_button \in BOOLEAN /\ mb \in BOOLEAN
  /\ relative_mouse \in Modes
  /\ flag \in BOOLEAN /\ started \in BOOLEAN
  /\ input \in {"idle", "stored", "raise", "mode"}
  /\ irq \in {"no", "mouse", "report", "keys"}
  /\ unreported \in 0 .. Span - 1

LEMMA MovesAre == Moves \subseteq Int /\ 0 \in Moves /\ Span \in Nat \ {0} /\ 0 \in 0 .. Span - 1
BY ADBAssumption DEF ADBAssumption, Moves, Span

LEMMA ReportIs == \A m \in Moves : Report(m) \in Int
BY ADBAssumption, MovesAre DEF ADBAssumption, Report, Span

LEMMA InitMouse == Init => MouseTypes
BY ADBAssumption, MovesAre DEF ADBAssumption, Init, MouseTypes

LEMMA MouseTypesStep == MouseTypes /\ [Next]_vars => MouseTypes'
<1> SUFFICES ASSUME MouseTypes, [Next]_vars PROVE MouseTypes'
  OBVIOUS
<1> USE ADBAssumption, MovesAre DEF ADBAssumption
<1>1. ASSUME NEW x \in Moves, ADBMouseMoved(x) PROVE MouseTypes'
  <2>1. unreported' \in 0 .. Span - 1
    BY <1>1, ModRange DEF MouseTypes, ADBMouseMoved
  <2>2. QED
    BY <1>1, <2>1 DEF MouseTypes, ADBMouseMoved, irqVars
<1>2. ASSUME NEW k \in Keys, ADBKey(k) PROVE MouseTypes'
  BY <1>2 DEF MouseTypes, ADBKey, mouseVars, irqVars, hostVars
<1>3. CASE ADBMouseButton
  BY <1>3 DEF MouseTypes, ADBMouseButton, mouseVars, irqVars, hostVars
<1>4. CASE ADBSetRelMouseMode
  BY <1>4 DEF MouseTypes, ADBSetRelMouseMode, mouseVars, irqVars, hostVars
<1>5. CASE MovePtr
  BY <1>5 DEF MouseTypes, MovePtr, mouseVars, irqVars, hostVars
<1>6. CASE Raise
  BY <1>6 DEF MouseTypes, Raise, mouseVars, irqVars, hostVars
<1>7. CASE HasMacStarted
  BY <1>7 DEF MouseTypes, HasMacStarted, mouseVars, irqVars, hostVars
<1>8. CASE Interrupt
  BY <1>8 DEF MouseTypes, Interrupt, mouseVars, irqVars, hostVars
<1>9. CASE GetMouse
  BY <1>9 DEF MouseTypes, GetMouse, mouseVars, irqVars, hostVars
<1>10. CASE ReportMouse
  <2>1. unreported - Report(mx) \in Int
    BY ReportIs DEF MouseTypes
  <2>2. unreported' \in 0 .. Span - 1
    BY <1>10, <2>1, ModRange DEF MouseTypes, ReportMouse
  <2>3. QED
    BY <1>10, <2>2 DEF MouseTypes, ReportMouse, hostVars
<1>11. CASE ReportKey
  BY <1>11 DEF MouseTypes, ReportKey, mouseVars, irqVars, hostVars
<1>12. CASE EndInterrupt
  BY <1>12 DEF MouseTypes, EndInterrupt, mouseVars, irqVars, hostVars
<1>13. CASE UNCHANGED vars
  BY <1>13 DEF MouseTypes, vars
<1>14. CASE ResetMouse
  BY <1>14 DEF MouseTypes, ResetMouse, irqVars
<1>15. QED
  BY <1>1, <1>2, <1>3, <1>4, <1>5, <1>6, <1>7, <1>8, <1>9, <1>10, <1>11, <1>12, <1>13, <1>14 DEF Next, ADBInterrupt

\* No change of the mode is under way.
Settled == input # "mode"

LEMMA SettledStep ==
  MouseTypes /\ Settled /\ relative_mouse' = relative_mouse /\ [Next]_vars => Settled'
<1> SUFFICES ASSUME MouseTypes, Settled, relative_mouse' = relative_mouse, [Next]_vars
             PROVE  Settled'
  OBVIOUS
<1>1. ~ADBSetRelMouseMode
  BY ADBAssumption DEF ADBSetRelMouseMode, MouseTypes, ADBAssumption
<1>2. QED
  BY <1>1 DEF Settled, Next, ADBMouseMoved, ADBMouseButton, ADBKey, ResetMouse, MovePtr, Raise,
     HasMacStarted, Interrupt, ADBInterrupt, GetMouse, ReportMouse, ReportKey, EndInterrupt,
     hostVars, vars

\* Motion moves from the mouse to the copy and from there to a report, and none
\* of it is left behind while the mode stays.
LEMMA ConservedStep ==
  MouseTypes /\ Conserved /\ Settled /\ relative_mouse /\ relative_mouse' /\ [Next]_vars
    => (Conserved /\ Settled)'
<1> SUFFICES ASSUME MouseTypes, Conserved, Settled, relative_mouse, relative_mouse', [Next]_vars
             PROVE  Conserved' /\ Settled'
  OBVIOUS
<1> SUFFICES Conserved'
  BY SettledStep
<1> USE MovesAre
<1> DEFINE copy == IF irq = "report" THEN mx ELSE 0
<1>0. mouse \in Int /\ mx \in Int /\ copy \in Int /\ unreported \in Int
        /\ ((unreported - mouse - copy) % Span) = 0
  BY DEF MouseTypes, Conserved
<1>1. ASSUME NEW x \in Moves, ADBMouseMoved(x) PROVE Conserved'
  <2>1. x \in Int /\ unreported' = ((unreported + x) % Span) /\ mouse' = mouse + x
    BY <1>1 DEF ADBMouseMoved
  <2>2. irq' = irq /\ mx' = mx
    BY <1>1 DEF ADBMouseMoved, irqVars
  <2>3. (((unreported + x) % Span) - (mouse + x + copy)) % Span
          = (((unreported + x) - (mouse + x + copy)) % Span)
    <3> DEFINE a == unreported + x
               b == mouse + x + copy
               n == Span
    <3>1. a \in Int /\ b \in Int /\ n \in Nat \ {0}
      BY <1>0, <2>1
    <3> HIDE DEF a, b, n
    <3>2. (((a % n) - b) % n) = ((a - b) % n)
      BY <3>1, ModDifference
    <3>3. QED
      BY <3>2 DEF a, b, n
  <2>4. (unreported + x) - (mouse + x + copy) = unreported - mouse - copy
    BY <1>0, <2>1
  <2>5. ((unreported' - (mouse' + copy)) % Span) = 0
    BY <1>0, <2>1, <2>3, <2>4
  <2>6. unreported' - (mouse' + copy) = unreported' - mouse' - copy
    BY <1>0, <2>1
  <2>7. QED
    BY <2>2, <2>5, <2>6 DEF Conserved
<1>2. ASSUME NEW k \in Keys, ADBKey(k) PROVE Conserved'
  <2>1. unreported' = unreported /\ mouse' = mouse /\ (IF irq' = "report" THEN mx' ELSE 0) = copy
    BY <1>2 DEF ADBKey, mouseVars, irqVars, hostVars, MouseTypes
  <2>2. QED
    BY <1>0, <2>1 DEF Conserved
<1>3. CASE ADBMouseButton
  <2>1. unreported' = unreported /\ mouse' = mouse /\ (IF irq' = "report" THEN mx' ELSE 0) = copy
    BY <1>3 DEF ADBMouseButton, mouseVars, irqVars, hostVars, MouseTypes
  <2>2. QED
    BY <1>0, <2>1 DEF Conserved
<1>4. CASE ADBSetRelMouseMode
  BY <1>4, ADBAssumption DEF ADBSetRelMouseMode, MouseTypes, ADBAssumption
<1>5. CASE MovePtr
  <2>1. unreported' = unreported /\ mouse' = mouse /\ (IF irq' = "report" THEN mx' ELSE 0) = copy
    BY <1>5 DEF MovePtr, mouseVars, irqVars, hostVars, MouseTypes
  <2>2. QED
    BY <1>0, <2>1 DEF Conserved
<1>6. CASE Raise
  <2>1. unreported' = unreported /\ mouse' = mouse /\ (IF irq' = "report" THEN mx' ELSE 0) = copy
    BY <1>6 DEF Raise, mouseVars, irqVars, hostVars, MouseTypes
  <2>2. QED
    BY <1>0, <2>1 DEF Conserved
<1>7. CASE HasMacStarted
  <2>1. unreported' = unreported /\ mouse' = mouse /\ (IF irq' = "report" THEN mx' ELSE 0) = copy
    BY <1>7 DEF HasMacStarted, mouseVars, irqVars, hostVars, MouseTypes
  <2>2. QED
    BY <1>0, <2>1 DEF Conserved
<1>8. CASE Interrupt
  <2>1. unreported' = unreported /\ mouse' = mouse /\ (IF irq' = "report" THEN mx' ELSE 0) = copy
    BY <1>8 DEF Interrupt, mouseVars, irqVars, hostVars, MouseTypes
  <2>2. QED
    BY <1>0, <2>1 DEF Conserved
<1>9. CASE GetMouse
  <2>1. mx' = mouse /\ mouse' = 0 /\ unreported' = unreported /\ irq = "mouse" /\ irq' = "report"
    BY <1>9 DEF GetMouse
  <2>2. unreported' - mouse' - mx' = unreported - mouse - copy
    BY <1>0, <2>1
  <2>3. QED
    BY <1>0, <2>1, <2>2 DEF Conserved
<1>10. CASE ReportMouse
  <2>1. unreported' = ((unreported - Report(mx)) % Span) /\ mouse' = mouse
          /\ irq = "report" /\ irq' = "keys"
    BY <1>10 DEF ReportMouse
  <2> DEFINE m == (mx + Reports) % Span
  <2>2. m \in Int /\ Reports \in Int /\ Report(mx) = m - Reports
    BY <1>0, ModRange, ADBAssumption DEF Report, ADBAssumption
  <2> HIDE DEF m
  <2>3. ((unreported' - mouse') % Span) = ((unreported - Report(mx) - mouse) % Span)
    <3> DEFINE a == unreported - Report(mx)
               b == mouse
               n == Span
    <3>1. a \in Int /\ b \in Int /\ n \in Nat \ {0}
      BY <1>0, <2>2
    <3> HIDE DEF a, b, n
    <3>2. (((a % n) - b) % n) = ((a - b) % n)
      BY <3>1, ModDifference
    <3>3. QED
      BY <2>1, <3>2 DEF a, b, n
  <2>4. ((m - (unreported - mouse + Reports)) % Span)
          = (((mx + Reports) - (unreported - mouse + Reports)) % Span)
    <3> DEFINE a == mx + Reports
               b == unreported - mouse + Reports
               n == Span
    <3>1. a \in Int /\ b \in Int /\ n \in Nat \ {0}
      BY <1>0, <2>2
    <3> HIDE DEF a, b, n
    <3>2. (((a % n) - b) % n) = ((a - b) % n)
      BY <3>1, ModDifference
    <3>3. QED
      BY <3>2 DEF m, a, b, n
  <2>5. (mx + Reports) - (unreported - mouse + Reports) = 0 - (unreported - mouse - copy)
    BY <1>0, <2>1, <2>2
  <2>6. ((0 - (unreported - mouse - copy)) % Span) = 0
    <3> DEFINE a == unreported - mouse - copy
               n == Span
    <3>1. a \in Int /\ n \in Nat \ {0} /\ (a % n) = 0
      BY <1>0
    <3> HIDE DEF a, n
    <3>2. ((0 - a) % n) = 0
      BY <3>1, ModNegated
    <3>3. QED
      BY <3>2 DEF a, n
  <2>7. m - (unreported - mouse + Reports) = 0 - (unreported - Report(mx) - mouse)
    BY <1>0, <2>2
  <2>8. ((0 - (unreported - Report(mx) - mouse)) % Span) = 0
    BY <2>4, <2>5, <2>6, <2>7
  <2>9. ((unreported - Report(mx) - mouse) % Span) = 0
    <3>1. unreported - Report(mx) - mouse \in Int
      BY <1>0, <2>2
    <3>2. 0 - (0 - (unreported - Report(mx) - mouse)) = unreported - Report(mx) - mouse
      BY <3>1
    <3>3. 0 - (unreported - Report(mx) - mouse) \in Int
      BY <3>1
    <3>4. QED
      BY <2>8, <3>2, <3>3, ModNegated
  <2>10. unreported' - mouse' - 0 = unreported' - mouse' /\ unreported' \in Int
    BY <1>0, <2>1, <2>2, ModRange
  <2>11. QED
    BY <2>1, <2>3, <2>9, <2>10 DEF Conserved
<1>11. CASE ReportKey
  <2>1. unreported' = unreported /\ mouse' = mouse /\ (IF irq' = "report" THEN mx' ELSE 0) = copy
    BY <1>11 DEF ReportKey, mouseVars, irqVars, hostVars, MouseTypes
  <2>2. QED
    BY <1>0, <2>1 DEF Conserved
<1>12. CASE EndInterrupt
  <2>1. unreported' = unreported /\ mouse' = mouse /\ (IF irq' = "report" THEN mx' ELSE 0) = copy
    BY <1>12 DEF EndInterrupt, mouseVars, irqVars, hostVars, MouseTypes
  <2>2. QED
    BY <1>0, <2>1 DEF Conserved
<1>13. CASE UNCHANGED vars
  BY <1>13 DEF Conserved, vars
<1>14. CASE ResetMouse
  BY <1>14 DEF ResetMouse, Settled
<1>15. QED
  BY <1>1, <1>2, <1>3, <1>4, <1>5, <1>6, <1>7, <1>8, <1>9, <1>10, <1>11, <1>12, <1>13, <1>14 DEF Next, ADBInterrupt

\* While the mouse stays in relative mode, the motion reported adds up to the
\* motion made, for any moves and any size of reports (modulo that size).
THEOREM MotionAddsUp == Spec => MotionConserved
<1>1. Init => Conserved /\ Settled
  BY MovesAre DEF Init, Conserved, Settled
<1>2. QED
  BY <1>1, InitMouse, MouseTypesStep, ConservedStep, PTL DEF Spec, MotionConserved

-----------------------------------------------------------------------------
(* ADBInterrupt() comes.                                                   *)

\* The flag is up, or will be.
Awake == input = "raise" \/ flag

\* Keys in the ring are for the interrupt that is at work or to come.
KeysAwake == key_read_ptr # key_write_ptr => Awake \/ irq # "no"

\* A button that is not as reported will be looked at by such an interrupt.
ButtonAwake ==
  Awake \/ irq = "mouse" \/ mouse_button = IF irq = "report" THEN mb ELSE old_mouse_button

\* The same of the position.
PositionAwake ==
  Awake \/ irq = "mouse" \/ mouse = IF irq = "report" THEN mx ELSE old_mouse

LEMMA AwakeStep ==
  MouseTypes /\ KeysAwake /\ ButtonAwake /\ started /\ [Next]_vars => (KeysAwake /\ ButtonAwake)'
<1> SUFFICES ASSUME MouseTypes, KeysAwake, ButtonAwake, started, [Next]_vars
             PROVE  (KeysAwake /\ ButtonAwake)'
  OBVIOUS
<1>1. ASSUME NEW x \in Moves, ADBMouseMoved(x) PROVE (KeysAwake /\ ButtonAwake)'
  BY <1>1 DEF MouseTypes, KeysAwake, ButtonAwake, Awake, ADBMouseMoved, irqVars, keyVars
<1>2. ASSUME NEW k \in Keys, ADBKey(k) PROVE (KeysAwake /\ ButtonAwake)'
  BY <1>2 DEF MouseTypes, KeysAwake, ButtonAwake, Awake, ADBKey, mouseVars, irqVars
<1>3. CASE ADBMouseButton
  BY <1>3 DEF MouseTypes, KeysAwake, ButtonAwake, Awake, ADBMouseButton, keyVars, irqVars
<1>4. CASE ADBSetRelMouseMode
  BY <1>4 DEF MouseTypes, KeysAwake, ButtonAwake, Awake, ADBSetRelMouseMode, keyVars, irqVars
<1>5. CASE MovePtr
  BY <1>5 DEF MouseTypes, KeysAwake, ButtonAwake, Awake, MovePtr, mouseVars, irqVars
<1>6. CASE Raise
  BY <1>6 DEF MouseTypes, KeysAwake, ButtonAwake, Awake, Raise, mouseVars, keyVars, irqVars
<1>7. CASE HasMacStarted
  BY <1>7 DEF MouseTypes, KeysAwake, ButtonAwake, Awake, HasMacStarted, mouseVars, keyVars
<1>8. CASE Interrupt
  BY <1>8 DEF MouseTypes, KeysAwake, ButtonAwake, Awake, Interrupt, hostVars, keyVars
<1>9. CASE GetMouse
  BY <1>9 DEF MouseTypes, KeysAwake, ButtonAwake, Awake, GetMouse, hostVars, keyVars
<1>10. CASE ReportMouse
  BY <1>10 DEF MouseTypes, KeysAwake, ButtonAwake, Awake, ReportMouse, hostVars, keyVars
<1>11. CASE ReportKey
  BY <1>11 DEF MouseTypes, KeysAwake, ButtonAwake, Awake, ReportKey, mouseVars, irqVars
<1>12. CASE EndInterrupt
  BY <1>12 DEF MouseTypes, KeysAwake, ButtonAwake, Awake, EndInterrupt, mouseVars, keyVars
<1>13. CASE UNCHANGED vars
  BY <1>13 DEF MouseTypes, KeysAwake, ButtonAwake, Awake, vars
<1>14. CASE ResetMouse
  BY <1>14 DEF MouseTypes, KeysAwake, ButtonAwake, Awake, ResetMouse, keyVars, irqVars
<1>15. QED
  BY <1>1, <1>2, <1>3, <1>4, <1>5, <1>6, <1>7, <1>8, <1>9, <1>10, <1>11, <1>12, <1>13, <1>14
     DEF Next, ADBInterrupt

LEMMA PositionStep ==
  MouseTypes /\ PositionAwake /\ Settled /\ started /\ ~relative_mouse /\ (~relative_mouse)'
    /\ [Next]_vars => (PositionAwake /\ Settled)'
<1> SUFFICES ASSUME MouseTypes, PositionAwake, Settled, started, ~relative_mouse, (~relative_mouse)', [Next]_vars
             PROVE  PositionAwake' /\ Settled'
  OBVIOUS
<1>0. relative_mouse' = relative_mouse
  BY MouseTypesStep, ADBAssumption DEF MouseTypes, ADBAssumption
<1> SUFFICES PositionAwake'
  BY <1>0, SettledStep
<1>1. ASSUME NEW x \in Moves, ADBMouseMoved(x) PROVE PositionAwake'
  BY <1>1 DEF MouseTypes, PositionAwake, Awake, ADBMouseMoved, irqVars, keyVars
<1>2. ASSUME NEW k \in Keys, ADBKey(k) PROVE PositionAwake'
  BY <1>2 DEF MouseTypes, PositionAwake, Awake, ADBKey, mouseVars, irqVars
<1>3. CASE ADBMouseButton
  BY <1>3 DEF MouseTypes, PositionAwake, Awake, ADBMouseButton, keyVars, irqVars
<1>4. CASE ADBSetRelMouseMode
  BY <1>4, ADBAssumption DEF ADBAssumption, MouseTypes, ADBSetRelMouseMode
<1>5. CASE MovePtr
  BY <1>5 DEF MouseTypes, PositionAwake, Awake, MovePtr, mouseVars, irqVars
<1>6. CASE Raise
  BY <1>6 DEF MouseTypes, PositionAwake, Awake, Raise, mouseVars, keyVars, irqVars
<1>7. CASE HasMacStarted
  BY <1>7 DEF MouseTypes, PositionAwake, Awake, HasMacStarted, mouseVars, keyVars
<1>8. CASE Interrupt
  BY <1>8 DEF MouseTypes, PositionAwake, Awake, Interrupt, hostVars, keyVars
<1>9. CASE GetMouse
  BY <1>9 DEF MouseTypes, PositionAwake, Awake, GetMouse, hostVars, keyVars
<1>10. CASE ReportMouse
  BY <1>10 DEF MouseTypes, PositionAwake, Awake, ReportMouse, hostVars, keyVars
<1>11. CASE ReportKey
  BY <1>11 DEF MouseTypes, PositionAwake, Awake, ReportKey, mouseVars, irqVars
<1>12. CASE EndInterrupt
  BY <1>12 DEF MouseTypes, PositionAwake, Awake, EndInterrupt, mouseVars, keyVars
<1>13. CASE UNCHANGED vars
  BY <1>13 DEF MouseTypes, PositionAwake, Awake, vars
<1>14. CASE ResetMouse
  BY <1>14 DEF MouseTypes, PositionAwake, Awake, Settled, ResetMouse, irqVars
<1>15. QED
  BY <1>1, <1>2, <1>3, <1>4, <1>5, <1>6, <1>7, <1>8, <1>9, <1>10, <1>11, <1>12, <1>13, <1>14
     DEF Next, ADBInterrupt

\* Once MacOS has started, nothing that the user types or presses is left to an
\* interrupt that nobody asks for: neither what comes in between two looks of
\* ADBInterrupt() nor what comes as it ends.  This is the part of EventsReported
\* that does not depend on scheduling.
THEOREM KeysAndButtonsWake == Spec => ([]started => [](KeysAwake /\ ButtonAwake))
<1>1. Init => KeysAwake /\ ButtonAwake
  BY DEF Init, KeysAwake, ButtonAwake
<1>2. QED
  BY <1>1, InitMouse, MouseTypesStep, AwakeStep, PTL DEF Spec

\* Neither is a move of the mouse in absolute mode.
THEOREM MovesWake == Spec => ([](started /\ ~relative_mouse) => []PositionAwake)
<1>1. Init => PositionAwake /\ Settled
  BY DEF Init, PositionAwake, Settled
<1>2. QED
  BY <1>1, InitMouse, MouseTypesStep, PositionStep, PTL DEF Spec

-----------------------------------------------------------------------------
(* The ring of keyboard events.                                            *)

\* The host does not type more between two reports than the ring can tell from
\* an empty one, which the code does not test.
RingBig == Keys # {} /\ MaxWaiting < KEY_BUFFER_SIZE

\* The events that wait lie in the ring from the read pointer on, in their order,
\* and the write pointer is behind them, in a free slot.
Ring ==
  /\ key_buffer \in [Slots -> Keys] /\ key_read_ptr \in Slots /\ key_write_ptr \in Slots
  /\ waiting \in Seq(Keys) /\ Len(waiting) \leq MaxWaiting
  /\ input = "stored" => Len(waiting) < MaxWaiting
  /\ key_write_ptr = ((key_read_ptr + Len(waiting)) % KEY_BUFFER_SIZE)
  /\ \A i \in 1 .. Len(waiting) :
       waiting[i] = key_buffer[(key_read_ptr + (i - 1)) % KEY_BUFFER_SIZE]

\* Different distances from a slot lead to different slots.
LEMMA SlotsDiffer ==
  ASSUME NEW n \in Nat \ {0}, NEW r \in 0 .. n - 1, NEW i \in 0 .. n - 1, NEW j \in 0 .. n - 1,
         i # j
  PROVE  ((r + i) % n) # ((r + j) % n)
<1>1. r + i \in 0 .. 2 * n - 1 /\ r + j \in 0 .. 2 * n - 1
  OBVIOUS
<1> DEFINE a == r + i
           b == r + j
<1>2. a # b /\ a - b < n /\ b - a < n
  OBVIOUS
<1> HIDE DEF a, b
<1>3. (a % n) = (IF a < n THEN a ELSE a - n) /\ (b % n) = (IF b < n THEN b ELSE b - n)
  BY <1>1, ModOnce DEF a, b
<1>4. a \in Int /\ b \in Int
  BY <1>1 DEF a, b
<1>5. (a % n) # (b % n)
  BY <1>2, <1>3, <1>4
<1>6. QED
  BY <1>5 DEF a, b

LEMMA SlotInRange ==
  ASSUME NEW n \in Nat \ {0}, NEW r \in 0 .. n - 1
  PROVE  /\ ((r + 0) % n) = r
         /\ \A i \in 0 .. n : ((r + i) % n) \in 0 .. n - 1
<1>1. r + 0 = r /\ (r % n) = r
  OBVIOUS
<1>2. ASSUME NEW i \in 0 .. n PROVE ((r + i) % n) \in 0 .. n - 1
  <2> DEFINE a == r + i
  <2>1. a \in Int
    OBVIOUS
  <2> HIDE DEF a
  <2>2. (a % n) \in 0 .. n - 1
    BY <2>1, ModRange
  <2>3. QED
    BY <2>2 DEF a
<1>3. QED
  BY <1>1, <1>2

\* The slot one further, from either pointer.
LEMMA SlotAfter ==
  ASSUME NEW n \in Nat \ {0}, NEW r \in 0 .. n - 1, NEW i \in 0 .. n - 1
  PROVE  /\ ((((r + i) % n) + 1) % n) = ((r + (i + 1)) % n)
         /\ ((((r + 1) % n) + i) % n) = ((r + (i + 1)) % n)
<1> DEFINE M(x) == IF x < n THEN x ELSE x - n
<1>1. (r + i) \in 0 .. 2 * n - 1 /\ (r + (i + 1)) \in 0 .. 2 * n - 1 /\ (r + 1) \in 0 .. 2 * n - 1
  OBVIOUS
<1>2. (r + i) % n = M(r + i) /\ (r + (i + 1)) % n = M(r + (i + 1)) /\ (r + 1) % n = M(r + 1)
  BY <1>1, ModOnce
<1>3. M(r + i) + 1 \in 0 .. 2 * n - 1 /\ M(r + 1) + i \in 0 .. 2 * n - 1
  OBVIOUS
<1>4. (M(r + i) + 1) % n = M(M(r + i) + 1) /\ (M(r + 1) + i) % n = M(M(r + 1) + i)
  BY <1>3, ModOnce
<1>5. M(M(r + i) + 1) = M(r + (i + 1)) /\ M(M(r + 1) + i) = M(r + (i + 1))
  OBVIOUS
<1>6. QED
  BY <1>2, <1>4, <1>5

\* The pointers tell how many events wait.
LEMMA Distance ==
  ASSUME NEW n \in Nat \ {0}, NEW r \in 0 .. n - 1, NEW i \in 0 .. n - 1
  PROVE  ((((r + i) % n) - r) % n) = i
<1> DEFINE a == r + i
<1>1. a \in Int /\ r \in Int /\ a - r = i
  OBVIOUS
<1> HIDE DEF a
<1>2. (((a % n) - r) % n) = ((a - r) % n)
  BY <1>1, ModDifference
<1>3. i \in 0 .. 2 * n - 1 /\ i < n
  OBVIOUS
<1>4. (i % n) = i
  BY <1>3, ModOnce
<1>5. QED
  BY <1>1, <1>2, <1>4 DEF a

LEMMA SizeIs == KEY_BUFFER_SIZE \in Nat \ {0} /\ MaxWaiting \in Nat
BY ADBAssumption DEF ADBAssumption

LEMMA InitRing == RingBig /\ Init => Ring
<1> SUFFICES ASSUME RingBig, Init PROVE Ring
  OBVIOUS
<1>1. key_buffer \in [Slots -> Keys] /\ key_read_ptr = 0 /\ key_write_ptr = 0 /\ waiting = <<>>
        /\ input = "idle"
  BY DEF RingBig, Init
<1>2. (0 + 0) % KEY_BUFFER_SIZE = 0
  BY SizeIs, ModOnce
<1>3. QED
  BY <1>1, <1>2, SizeIs DEF Ring, Slots

LEMMA RingStep == RingBig /\ Ring /\ [Next]_vars => Ring'
<1> SUFFICES ASSUME RingBig, Ring, [Next]_vars PROVE Ring'
  OBVIOUS
<1> USE SizeIs
<1> DEFINE n == KEY_BUFFER_SIZE
           r == key_read_ptr
           l == Len(waiting)
<1>0. r \in 0 .. n - 1 /\ l \in 0 .. n - 1 /\ l \leq MaxWaiting /\ MaxWaiting < n
  BY DEF Ring, RingBig, Slots
<1>1. ASSUME NEW x \in Moves, ADBMouseMoved(x) PROVE Ring'
  BY <1>1 DEF Ring, ADBMouseMoved, keyVars
<1>2. ASSUME NEW k \in Keys, ADBKey(k) PROVE Ring'
  <2>1. key_buffer' = [key_buffer EXCEPT ![key_write_ptr] = k] /\ l < MaxWaiting
          /\ waiting' = waiting /\ key_read_ptr' = r /\ key_write_ptr' = key_write_ptr
    BY <1>2 DEF ADBKey
  <2>2. key_buffer' \in [Slots -> Keys]
    BY <2>1 DEF Ring
  <2>3. ASSUME NEW i \in 1 .. l PROVE waiting[i] = key_buffer'[(r + (i - 1)) % n]
    <3>1. (i - 1) \in 0 .. n - 1 /\ i - 1 # l
      BY <1>0
    <3>2. ((r + (i - 1)) % n) # ((r + l) % n)
      BY <1>0, <3>1, SlotsDiffer
    <3>3. ((r + (i - 1)) % n) \in Slots
      <4>1. (i - 1) \in 0 .. n
        BY <1>0
      <4>2. ((r + (i - 1)) % n) \in 0 .. n - 1
        BY <1>0, <4>1, SlotInRange
      <4>3. QED
        BY <4>2 DEF Slots
    <3>4. QED
      BY <2>1, <3>2, <3>3 DEF Ring
  <2>4. QED
    BY <2>1, <2>2, <2>3 DEF Ring
<1>3. CASE ADBMouseButton
  BY <1>3 DEF Ring, ADBMouseButton, keyVars, hostVars
<1>4. CASE ADBSetRelMouseMode
  BY <1>4 DEF Ring, ADBSetRelMouseMode, keyVars, hostVars
<1>5. CASE MovePtr
  <2>1. input = "stored" /\ waiting' = Append(waiting, key_buffer[key_write_ptr])
          /\ key_write_ptr' = ((key_write_ptr + 1) % n) /\ key_buffer' = key_buffer
          /\ key_read_ptr' = r /\ input' = "raise"
    BY <1>5 DEF MovePtr
  <2>2. l < MaxWaiting /\ waiting \in Seq(Keys) /\ key_buffer[key_write_ptr] \in Keys
    BY <2>1 DEF Ring
  <2>3. waiting' \in Seq(Keys) /\ Len(waiting') = l + 1
    BY <2>1, <2>2
  <2>4. key_write_ptr' = ((r + (l + 1)) % n)
    BY <1>0, <2>1, SlotAfter DEF Ring
  <2>5. key_write_ptr' \in Slots
    <3>1. l + 1 \in 0 .. n
      BY <1>0
    <3>2. ((r + (l + 1)) % n) \in 0 .. n - 1
      BY <1>0, <3>1, SlotInRange
    <3>3. QED
      BY <2>4, <3>2 DEF Slots
  <2>6. ASSUME NEW i \in 1 .. l + 1 PROVE waiting'[i] = key_buffer[(r + (i - 1)) % n]
    <3>1. CASE i \in 1 .. l
      <4>1. waiting'[i] = waiting[i]
        BY <2>1, <2>2, <3>1
      <4>2. QED
        BY <3>1, <4>1 DEF Ring
    <3>2. CASE i = l + 1
      <4>1. waiting'[i] = key_buffer[key_write_ptr] /\ i - 1 = l
        BY <2>1, <2>2, <3>2
      <4>2. QED
        BY <4>1 DEF Ring
    <3>3. QED
      BY <1>0, <3>1, <3>2
  <2>7. QED
    BY <1>0, <2>1, <2>2, <2>3, <2>4, <2>5, <2>6 DEF Ring
<1>6. CASE Raise
  BY <1>6 DEF Ring, Raise, keyVars, hostVars
<1>7. CASE HasMacStarted
  BY <1>7 DEF Ring, HasMacStarted, keyVars, hostVars
<1>8. CASE Interrupt
  BY <1>8 DEF Ring, Interrupt, keyVars, hostVars
<1>9. CASE GetMouse
  BY <1>9 DEF Ring, GetMouse, keyVars, hostVars
<1>10. CASE ReportMouse
  BY <1>10 DEF Ring, ReportMouse, keyVars, hostVars
<1>11. CASE ReportKey
  <2>1. key_read_ptr # key_write_ptr /\ key_read_ptr' = ((r + 1) % n) /\ waiting' = Tail(waiting)
          /\ key_buffer' = key_buffer /\ key_write_ptr' = key_write_ptr /\ input' = input
    BY <1>11 DEF ReportKey
  <2>2. l > 0
    <3>1. SUFFICES ASSUME l = 0 PROVE FALSE
      BY <1>0
    <3>2. ((r + 0) % n) = r
      BY <1>0, SlotInRange
    <3>3. QED
      BY <2>1, <3>1, <3>2 DEF Ring
  <2>3. waiting # <<>> /\ waiting \in Seq(Keys)
    BY <2>2 DEF Ring
  <2>4. waiting' \in Seq(Keys) /\ Len(waiting') = l - 1
          /\ \A i \in 1 .. l - 1 : waiting'[i] = waiting[i + 1]
    BY <2>1, <2>3
  <2>5. key_read_ptr' \in Slots
    BY <1>0, <2>1, ModRange DEF Slots
  <2>6. ASSUME NEW i \in 0 .. n - 1 PROVE ((key_read_ptr' + i) % n) = ((r + (i + 1)) % n)
    BY <1>0, <2>1, SlotAfter
  <2>7. key_write_ptr' = ((key_read_ptr' + (l - 1)) % n)
    <3>1. (l - 1) \in 0 .. n - 1 /\ (l - 1) + 1 = l
      BY <1>0, <2>2
    <3>2. QED
      BY <2>1, <2>6, <3>1 DEF Ring
  <2>8. ASSUME NEW i \in 1 .. l - 1
        PROVE  waiting'[i] = key_buffer[(key_read_ptr' + (i - 1)) % n]
    <3>1. (i - 1) \in 0 .. n - 1 /\ (i - 1) + 1 = (i + 1) - 1 /\ i + 1 \in 1 .. l
      BY <1>0
    <3>2. waiting[i + 1] = key_buffer[(r + ((i + 1) - 1)) % n]
      BY <3>1 DEF Ring
    <3>3. QED
      BY <2>4, <2>6, <3>1, <3>2
  <2>9. QED
    BY <1>0, <2>1, <2>2, <2>4, <2>5, <2>7, <2>8 DEF Ring
<1>12. CASE EndInterrupt
  BY <1>12 DEF Ring, EndInterrupt, keyVars, hostVars
<1>13. CASE UNCHANGED vars
  BY <1>13 DEF Ring, vars
<1>14. CASE ResetMouse
  BY <1>14 DEF Ring, ResetMouse, keyVars
<1>15. QED
  BY <1>1, <1>2, <1>3, <1>4, <1>5, <1>6, <1>7, <1>8, <1>9, <1>10, <1>11, <1>12, <1>13, <1>14 DEF Next, ADBInterrupt

\* The type invariant, if the host does not type more than the ring can hold.
THEOREM TypeCorrect == RingBig => (Spec => []TypeOK)
<1> SUFFICES ASSUME RingBig PROVE Spec => []TypeOK
  OBVIOUS
<1>1. RingBig /\ MouseTypes /\ Ring => TypeOK
  BY DEF MouseTypes, Ring, TypeOK
<1>2. QED
  BY <1>1, InitMouse, MouseTypesStep, InitRing, RingStep, PTL DEF Spec

\* The events in the ring are those not reported, in their order: for a ring of any
\* size, as long as one slot stays free.
THEOREM OrderKept == RingBig => (Spec => []KeysInOrder)
<1> SUFFICES ASSUME RingBig PROVE Spec => []KeysInOrder
  OBVIOUS
<1>1. ASSUME Ring PROVE KeysInOrder
  <2> DEFINE n == KEY_BUFFER_SIZE
             l == Len(waiting)
  <2>1. key_read_ptr \in 0 .. n - 1 /\ l \in 0 .. n - 1 /\ n \in Nat \ {0}
    BY <1>1, SizeIs DEF Ring, RingBig, Slots
  <2>2. ((key_write_ptr - key_read_ptr) % n) = l
    BY <1>1, <2>1, Distance DEF Ring
  <2>3. waiting = [i \in 1 .. l |-> waiting[i]]
    BY <1>1 DEF Ring
  <2>4. \A i \in 1 .. l : waiting[i] = key_buffer[(key_read_ptr + i - 1) % n]
    BY <1>1 DEF Ring
  <2>5. QED
    BY <2>2, <2>3, <2>4 DEF KeysInOrder, Buffered
<1>2. QED
  BY <1>1, InitRing, RingStep, PTL DEF Spec

=============================================================================
