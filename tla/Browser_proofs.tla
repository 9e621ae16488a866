---------------------------- MODULE Browser_proofs ----------------------------
(***************************************************************************)
(* The parts of the browser side by side, as MCBrowser puts them together: *)
(* a behaviour moves one of them and leaves the others as they are.  The   *)
(* parts' invariants together give the type invariant of the runs, for any *)
(* number of accounts, tabs, requests and messages.  What the parts        *)
(* promise is proved of each in its own module.                            *)
(***************************************************************************)
EXTENDS MCBrowser, ContractPages_proofs, SignIn_proofs, Chat_proofs

browserVars == <<part, pageVars, sessionVars, factorVars, throttleVars, chatVars, disputeChatVars>>

BrowserInv == /\ PagesInv /\ Flags
              /\ SessionInv
              /\ FactorInv /\ MadeSoFar
              /\ ThrottleInv
              /\ ListInv /\ AcceptInv /\ ChatSoFar
              /\ HearingInv

\* A step of the browser is one of one part, and leaves the others alone.
LEMMA PartSteps ==
    ASSUME [BrowserNext]_browserVars
    PROVE  /\ [PagesNext]_pageVars /\ [SessionNext]_sessionVars /\ [FactorNext]_factorVars
           /\ [ThrottleNext]_throttleVars /\ [ChatNext]_chatVars
           /\ [DisputeChatNext]_disputeChatVars
<1>1. CASE BrowserNext
  BY <1>1 DEF BrowserNext
<1>2. CASE UNCHANGED browserVars
  BY <1>2 DEF browserVars
<1> QED BY <1>1, <1>2

LEMMA BrowserStart == BrowserInit => BrowserInv
<1> SUFFICES ASSUME BrowserInit PROVE BrowserInv
  OBVIOUS
<1>1. PagesInit /\ SessionInit /\ FactorInit /\ ThrottleInit /\ ChatInit /\ DisputeChatInit
  BY DEF BrowserInit
<1> QED BY <1>1, InitPages, InitFlags, SessionStart, FactorStart, FactorSoFar, ThrottleInitInv,
           ListInit, AcceptInit, ChatSoFarInit, HearingStart DEF BrowserInv

LEMMA BrowserStep == BrowserInv /\ [BrowserNext]_browserVars => BrowserInv'
<1> SUFFICES ASSUME BrowserInv, [BrowserNext]_browserVars PROVE BrowserInv'
  OBVIOUS
<1>1. /\ [PagesNext]_pageVars /\ [SessionNext]_sessionVars /\ [FactorNext]_factorVars
      /\ [ThrottleNext]_throttleVars /\ [ChatNext]_chatVars /\ [DisputeChatNext]_disputeChatVars
  BY PartSteps
<1>2. (PagesInv /\ Flags)'
  BY <1>1, PagesStep, FlagsStep DEF BrowserInv
<1>3. SessionInv'
  BY <1>1, SessionStep DEF BrowserInv
<1>4. (FactorInv /\ MadeSoFar)'
  <2>1. FactorTyped
    BY DEF BrowserInv, FactorInv
  <2> QED BY <1>1, <2>1, FactorStep, StepSoFar DEF BrowserInv
<1>5. ThrottleInv'
  BY <1>1, ThrottleStep DEF BrowserInv
<1>6. (ListInv /\ AcceptInv /\ ChatSoFar)'
  BY <1>1, ListStep, AcceptStep, ChatSoFarStep DEF BrowserInv
<1>7. HearingInv'
  BY <1>1, HearingStep DEF BrowserInv
<1> QED BY <1>2, <1>3, <1>4, <1>5, <1>6, <1>7 DEF BrowserInv

LEMMA BrowserStays == BrowserSpec => []BrowserInv
<1>1. BrowserSpec => BrowserInit /\ [][BrowserNext]_browserVars
  BY PTL DEF BrowserSpec, browserVars
<1> QED BY <1>1, BrowserStart, BrowserStep, PTL

\* Every part keeps to its types, whatever the others do: the pages and the chain behind
\* them, the session, the second factor, the limit on codes and both chats.
THEOREM BrowserTypeCorrect == BrowserSpec => []BrowserTypeOK
<1>1. BrowserInv => BrowserTypeOK
  <2> SUFFICES ASSUME BrowserInv PROVE BrowserTypeOK
    OBVIOUS
  <2>1. PagesTypeOK
    BY PagesTypes DEF BrowserInv
  <2>2. SessionTypeOK /\ FactorTypeOK
    BY SessionTypes, FactorTypes DEF BrowserInv
  <2>3. ThrottleTypeOK
    BY DEF BrowserInv, ThrottleInv
  <2>4. ChatTypeOK /\ DisputeChatTypeOK
    BY ChatTypes, HearingTypes DEF BrowserInv
  <2> QED BY <2>1, <2>2, <2>3, <2>4 DEF BrowserTypeOK
<1> QED BY <1>1, BrowserStays, PTL
===============================================================================
