-------------------------- MODULE MCServicesProofs --------------------------
(***************************************************************************)
(* The composition of the services: each of them, seen alone, behaves as   *)
(* its own specification says, so that the theorems about one hold of the  *)
(* composition, the specification that the run `services' explores.        *)
(***************************************************************************)
EXTENDS MCServices, ActionPipelineProofs, AccountsProofs, ScrapingProofs, OperatorProofs,
        ServicesProofs, TLAPS

servicesVars == <<part, vars, accountVars, scrapeVars, queueVars, composingVars, teamVars,
                  analyticsVars, metricsVars, hubVars, relayVars>>

\* A step of the composition is one of the service that runs; the others stand still.
LEMMA StepOfOne ==
    [ServicesNext]_servicesVars =>
        /\ [Next]_vars /\ [AccountsNext]_accountVars /\ [ScrapingNext]_scrapeVars
        /\ [QueueNext]_queueVars /\ [ComposingNext]_composingVars /\ [TeamNext]_teamVars
        /\ [AnalyticsNext]_analyticsVars /\ [MetricsNext]_metricsVars
        /\ [HubNext]_hubVars /\ [RelayNext]_relayVars
        /\ UNCHANGED part
BY DEF ServicesNext, servicesVars, Serves, Others

\* Each service starts in a first state of its own; those that do not run, in one of them.
LEMMA FirstOfAll ==
    ServicesInit =>
        /\ Init /\ AccountsInit /\ ScrapingInit /\ QueueInit /\ ComposingInit /\ TeamInit
        /\ AnalyticsInit /\ MetricsInit /\ HubInit /\ RelayInit
        /\ part \in Parts
BY DEF ServicesInit

\* Every behaviour of the composition is a behaviour of each service: what one
\* service reads of another's rows is a step of its own specification already.
THEOREM ServicesImplementEach ==
    ServicesSpec => /\ Spec /\ AccountsSpec /\ ScrapingSpec /\ QueueSpec /\ ComposingSpec
                    /\ TeamSpec /\ AnalyticsSpec /\ MetricsSpec /\ HubSpec /\ RelaySpec
BY FirstOfAll, StepOfOne, PTL
   DEF ServicesSpec, servicesVars, Spec, AccountsSpec, ScrapingSpec, QueueSpec, ComposingSpec,
       TeamSpec, AnalyticsSpec, MetricsSpec, HubSpec, RelaySpec

\* In the composition every service keeps the shape of its variables: the one
\* that runs by its own theorem, which is what ServicesTypeOK asks.
THEOREM ServicesTypeCorrect == ServicesSpec => []ServicesTypeOK
<1>1. ServicesInit => part \in Parts
  BY FirstOfAll
<1>2. part \in Parts /\ [ServicesNext]_servicesVars => (part \in Parts)'
  BY StepOfOne
<1>3. /\ part \in Parts
      /\ TypeOK /\ AccountsTypeOK /\ ScrapingTypeOK /\ QueueTypeOK /\ ComposingTypeOK
      /\ TeamTypeOK /\ AnalyticsTypeOK /\ MetricsTypeOK /\ HubTypeOK /\ RelayTypeOK
      => ServicesTypeOK
  BY DEF ServicesTypeOK, Parts
<1>4. ServicesSpec => [](part \in Parts)
  BY <1>1, <1>2, PTL DEF ServicesSpec, servicesVars
<1> QED BY <1>3, <1>4, ServicesImplementEach, TypeCorrect, AccountsTypeCorrect,
           ScrapingTypeCorrect, QueueTypeCorrect, ComposingTypeCorrect, TeamTypeCorrect,
           AnalyticsTypeCorrect, MetricsTypeCorrect, HubTypeCorrect, RelayTypeCorrect, PTL

\* The services keep what they promise in the composition: everything the run
\* checks of them, for every value of the constants.
THEOREM ServicesKeepPromises ==
    ServicesSpec =>
        /\ []CapOverrunBounded /\ []PortSharersBounded /\ []PausedIsReleased /\ []LowScoreIsPulled
        /\ []BatchIsItsRun /\ []StuckOnlyByFault /\ []SuccessHasPost
        /\ []AttemptsBounded /\ []RunningIsHeld
        /\ []AllOrNothing /\ []OwnTextPosted
        /\ []OwnersLeft /\ []TrailIsTrue
        /\ []RunVerdictIsTrue /\ []FetchedMeansData
        /\ []LatestIsObserved /\ AlertIsReal
        /\ []NoSilentGap /\ []ExportIsOwn
<1>1. AccountsSpec => /\ []CapOverrunBounded /\ []PortSharersBounded
                      /\ []PausedIsReleased /\ []LowScoreIsPulled
  BY CapOverrunIsBounded, PortSharersAreBounded, PausedAreReleased, LowScoresArePulled
<1>2. ScrapingSpec => []BatchIsItsRun /\ []StuckOnlyByFault /\ []SuccessHasPost
  BY BatchesAreTheirRuns, StuckRowsByFault, SuccessHasItsPost
<1>3. QueueSpec => []AttemptsBounded /\ []RunningIsHeld
  BY AttemptsAreBounded, RunningJobIsHeld
<1>4. ComposingSpec => []AllOrNothing /\ []OwnTextPosted
  BY BatchesAllOrNothing, OperatorsWordsPosted
<1>5. TeamSpec => []OwnersLeft /\ []TrailIsTrue
  BY TeamKeepsAnOwner, TrailCorrect
<1>6. AnalyticsSpec => []RunVerdictIsTrue /\ []FetchedMeansData
  BY RunVerdictsAreTrue, FetchedHasData
<1>7. MetricsSpec => []LatestIsObserved /\ AlertIsReal
  BY SamplesAreObserved, AlertsAreReal
<1>8. HubSpec => []NoSilentGap
  BY GapsAreSignalled
<1>9. RelaySpec => []ExportIsOwn
  BY ExportsAreOwn
<1> QED BY <1>1, <1>2, <1>3, <1>4, <1>5, <1>6, <1>7, <1>8, <1>9, ServicesImplementEach

\* So does the action engine beside them, as long as every verdict is delivered once.
THEOREM PipelineKeepsPromises ==
    ASSUME DeliveredOnce
    PROVE  ServicesSpec => /\ []SingleOwner /\ []ChargedOnce /\ []SuccessNotRepeated
                           /\ ImplementsLifecycle /\ TerminalIsFinal
<1>1. Spec => []SingleOwner /\ []ChargedOnce
  BY OneOwner, ChargesOnce
<1>2. Spec => []SuccessNotRepeated
  BY SuccessOnce
<1>3. Spec => ImplementsLifecycle /\ TerminalIsFinal
  BY PipelineImplementsLifecycle, TerminalStays
<1> QED BY <1>1, <1>2, <1>3, ServicesImplementEach
=============================================================================
