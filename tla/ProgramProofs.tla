--------------------------- MODULE ProgramProofs ---------------------------
(***************************************************************************)
(* Theorems about Program, for any ports and any other programs.           *)
(***************************************************************************)
EXTENDS Program, TLAPS

\* Inductive: what the manager holds is the port of the configuration until
\* the search is over and the port that was found from then on, and the file
\* agrees with the manager after every save that succeeds.
IInv ==
  /\ pc \in {"search", "publish"} => memPort = cfgPort /\ server = "none"
  /\ pc \notin {"search", "publish"} => memPort = actualPort
  /\ ~saveFailed => webPort = memPort

LEMMA InitIInv == Init => IInv
BY DEF Init, IInv

LEMMA NextIInv == IInv /\ [Next]_vars => IInv'
<1> SUFFICES ASSUME IInv, [Next]_vars PROVE IInv'
  OBVIOUS
<1> USE DEF IInv, portVars
<1>1. CASE Found
  BY <1>1 DEF Found
<1>2. CASE TryNext
  BY <1>2 DEF TryNext
<1>3. CASE UpdateWebPort
  BY <1>3 DEF UpdateWebPort, Save
<1>4. CASE Run
  BY <1>4 DEF Run
<1>5. CASE TrayReturns \/ Exit \/ Quit \/ Stop \/ Others
  BY <1>5 DEF TrayReturns, Exit, Quit, Stop, Others
<1>6. CASE Serve
  BY <1>6 DEF Serve
<1>7. CASE OtherUpdate
  BY <1>7 DEF OtherUpdate, Save
<1>8. CASE UNCHANGED vars
  BY <1>8 DEF vars
<1> QED
  BY <1>1, <1>2, <1>3, <1>4, <1>5, <1>6, <1>7, <1>8 DEF Next, Main

\* The port the skill reads in config.json is the one the server was given,
\* unless the last save failed: neither the search nor a save of another
\* field leaves an old port there.
THEOREM PublishedPort == Spec => []PortIsPublished
<1>1. IInv => PortIsPublished
  BY DEF IInv, PortIsPublished
<1> QED
  BY <1>1, InitIInv, NextIInv, PTL DEF Spec

-----------------------------------------------------------------------------
(* The order of preference.                                                *)

Copies ==
  /\ cfgPort \in 0 .. LastPort /\ actualPort \in Nat /\ changes \in Nat
  /\ taken \subseteq 1 .. LastPort

\* While nobody else moves: the search is at the default, or the default is
\* taken and so are the ports from the saved one to where it is; what it found
\* is preferred.
Searched ==
  changes = 0 =>
    IF pc = "search"
    THEN \/ actualPort = DefaultPort
         \/ /\ DefaultPort \in taken /\ actualPort >= savedPort
            /\ \A q \in savedPort .. (actualPort - 1) :
                 q <= LastPort => q \in taken
    ELSE Preferred(actualPort)

LEMMA SavedPortType ==
  ASSUME Copies PROVE savedPort \in 1 .. LastPort
BY PortAssumption DEF Copies, savedPort

\* The port at which the search ends is the preferred one.
LEMMA FoundPreferred ==
  ASSUME Copies, Searched, Found, changes = 0
  PROVE  Preferred(actualPort)
<1>1. /\ pc = "search" /\ actualPort <= LastPort /\ actualPort \notin taken
      /\ actualPort \in Nat /\ savedPort \in Nat
  BY SavedPortType, PortAssumption DEF Found, Free, Copies
<1>2. CASE actualPort = DefaultPort
  BY <1>1, <1>2 DEF Preferred
<1>3. CASE actualPort # DefaultPort
  <2>1. /\ DefaultPort \in taken /\ actualPort >= savedPort
        /\ \A q \in savedPort .. (actualPort - 1) : q <= LastPort => q \in taken
    BY <1>1, <1>3 DEF Searched
  <2>2. ASSUME NEW q \in savedPort .. actualPort
        PROVE  q \in taken <=> q # actualPort
    BY <1>1, <2>1, PortAssumption
  <2> QED
    BY <1>1, <2>1, <2>2 DEF Preferred
<1> QED
  BY <1>2, <1>3

\* A port that is in use is passed: on to the saved one, or by one.
LEMMA SearchGoesOn ==
  ASSUME Copies, Searched, TryNext, changes = 0
  PROVE  Searched' /\ actualPort' \in Nat
<1>1. /\ pc = "search" /\ pc' = "search" /\ actualPort' = NextPort
      /\ UNCHANGED <<taken, cfgPort, changes>>
      /\ actualPort <= LastPort => actualPort \in taken
      /\ actualPort \in Nat /\ savedPort \in 1 .. LastPort
      /\ DefaultPort \in 1 .. LastPort /\ LastPort \in Nat
  BY SavedPortType, PortAssumption DEF TryNext, Free, Copies, portVars
<1>2. savedPort' = savedPort
  BY <1>1 DEF savedPort
<1>3. DefaultPort \in taken
  BY <1>1 DEF Searched
<1>4. CASE AtDefault
  BY <1>1, <1>2, <1>3, <1>4 DEF NextPort, Searched
<1>5. CASE ~AtDefault
  <2>1. actualPort' = actualPort + 1 /\ actualPort' >= savedPort
    BY <1>1, <1>5 DEF NextPort, AtDefault, Searched
  <2>2. ASSUME NEW q \in savedPort .. (actualPort' - 1), q <= LastPort
        PROVE  q \in taken
    <3>1. CASE q = actualPort
      BY <1>1, <2>2, <3>1
    <3>2. CASE q # actualPort
      <4>1. q < actualPort /\ q \in savedPort .. (actualPort - 1)
        BY <1>1, <2>1, <2>2, <3>2
      <4> QED
        BY <1>1, <1>3, <1>5, <2>2, <4>1 DEF AtDefault, Searched
    <3> QED
      BY <3>1, <3>2
  <2> QED
    BY <1>1, <1>2, <1>3, <2>1, <2>2 DEF Searched
<1> QED
  BY <1>4, <1>5

LEMMA NextSearched ==
  Copies /\ Searched /\ [Next]_vars => Copies' /\ Searched'
<1> SUFFICES ASSUME Copies, Searched, [Next]_vars PROVE Copies' /\ Searched'
  OBVIOUS
<1>1. Copies'
  <2>1. cfgPort' = cfgPort
    BY DEF Next, Main, Found, TryNext, UpdateWebPort, Run, TrayReturns, Exit,
           Serve, Quit, Stop, Others, OtherUpdate, vars, portVars
  <2>2. actualPort' \in {actualPort, NextPort}
    BY DEF Next, Main, Found, TryNext, UpdateWebPort, Run, TrayReturns, Exit,
           Serve, Quit, Stop, Others, OtherUpdate, vars, portVars
  <2>3. NextPort \in Nat
    BY SavedPortType, PortAssumption DEF NextPort, Copies
  <2>4. changes' \in Nat /\ taken' \subseteq 1 .. LastPort
    <3>1. CASE Others
      <4>1. PICK p \in Ports : taken' = taken \ {p} \/ taken' = taken \cup {p}
        BY <3>1 DEF Others
      <4>2. p \in 1 .. LastPort
        BY PortAssumption
      <4>3. changes' = changes + 1
        BY <3>1 DEF Others
      <4>4. taken \subseteq 1 .. LastPort
        BY DEF Copies
      <4>5. taken' \subseteq 1 .. LastPort
        BY <4>1, <4>2, <4>4, Zenon
      <4> QED
        BY <4>3, <4>5 DEF Copies
    <3>2. CASE UNCHANGED <<changes, taken>>
      BY <3>2 DEF Copies
    <3> QED
      BY <3>1, <3>2 DEF Next, Main, Found, TryNext, UpdateWebPort, Run,
         TrayReturns, Exit, Serve, Quit, Stop, OtherUpdate, vars
  <2> QED
    BY <2>1, <2>2, <2>3, <2>4 DEF Copies
<1>2. Searched'
  <2>1. CASE Others
    BY <2>1 DEF Others, Searched, Copies
  <2>2. CASE TryNext
    BY <2>2, SearchGoesOn DEF TryNext, Searched
  <2>3. CASE Found
    <3>1. /\ pc' # "search" /\ UNCHANGED <<taken, changes, actualPort, cfgPort>>
      BY <2>3 DEF Found, portVars
    <3> QED
      BY <2>3, <3>1, FoundPreferred DEF Searched, Preferred, savedPort
  <2>4. CASE /\ (pc = "search") = (pc' = "search")
             /\ UNCHANGED <<taken, changes, actualPort, cfgPort>>
    BY <2>4 DEF Searched, Preferred, savedPort
  <2> QED
    BY <2>1, <2>2, <2>3, <2>4
       DEF Next, Main, UpdateWebPort, Run, TrayReturns, Exit, Serve, Quit, Stop,
           OtherUpdate, vars, portVars
<1> QED
  BY <1>1, <1>2

\* As long as no other program takes or leaves a port meanwhile, the server is
\* given the default port, or the saved one, or the first free one above it,
\* wherever the saved port lies.
THEOREM PreferredPort == Spec => []PrefersInOrder
<1>1. Init => Copies /\ Searched
  BY PortAssumption DEF Init, Copies, Searched
<1>2. Searched => PrefersInOrder
  BY DEF Searched, PrefersInOrder
<1> QED
  BY <1>1, <1>2, NextSearched, PTL DEF Spec
=============================================================================
