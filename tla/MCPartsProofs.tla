----------------------------- MODULE MCPartsProofs -----------------------------
(***************************************************************************)
(* The components side by side: each keeps its invariant while it runs and *)
(* stands still while another does.                                        *)
(***************************************************************************)
EXTENDS MCParts, PartsProofs, NegotiationProofs, SearchProofs

(* The inductive invariant of whatever component runs.                     *)
RunningInv ==
    /\ part = "artifacts" => ArtifactInv
    /\ part = "handles" => HandlesInv
    /\ part = "consent" => ConsentInv
    /\ part = "exchange" => ExchangeInv
    /\ part = "container" => ContainerInv
    /\ part = "negotiation" => NInv
    /\ part = "search" => RouteInv
    /\ part = "layered" => LayeredInv
    /\ part = "index" => IndexInv

LEMMA PartsStart == MCInit => RunningInv
<1> SUFFICES ASSUME MCInit PROVE RunningInv
    OBVIOUS
<1>1. /\ ArtifactInit /\ TaskInit /\ ConsentInit /\ ContainerInit
      /\ NegotiationInit /\ SearchInit /\ LayeredInit /\ IndexInit
      /\ part = "exchange" => ExchangeInit
    BY DEF MCInit
<1> QED
    BY <1>1, StoreStarts, EmptyBrokerOK, ConsentStarts, ContainerStarts, NegotiationStarts,
       SearchInitInv, LayeredInitInv, IndexStarts, ExchangeStarts DEF RunningInv

(* A step is one of the running component, or of none.                     *)
LEMMA PartsStep ==
    ASSUME [MCNext]_MCVars
    PROVE  /\ part' = part
           /\ part = "artifacts" => [ArtifactNext]_artifactVars
           /\ part = "handles" => [TaskNext]_taskVars
           /\ part = "consent" => [ConsentNext]_consentVars
           /\ part = "exchange" => [ExchangeNext]_exchangeVars
           /\ part = "container" => [ContainerNext]_containerVars
           /\ part = "negotiation" => [NegotiationNext]_negotiationVars
           /\ part = "search" => [SearchNext]_searchVars
           /\ part = "layered" => [LayeredNext]_layeredVars
           /\ part = "index" => [IndexNext]_indexVars
<1>1. CASE MCNext
    BY <1>1 DEF MCNext, Rest
<1>2. CASE UNCHANGED MCVars
    BY <1>2 DEF MCVars
<1> QED
    BY <1>1, <1>2

LEMMA PartsGoOn == RunningInv /\ [MCNext]_MCVars => RunningInv'
<1> SUFFICES ASSUME RunningInv, [MCNext]_MCVars PROVE RunningInv'
    OBVIOUS
<1>1. part' = part
    BY PartsStep
<1>2. part = "artifacts" => ArtifactInv'
    BY PartsStep, StoreGoesOn DEF RunningInv
<1>3. part = "handles" => HandlesInv'
    BY PartsStep, StepKeepsHandlesInv DEF RunningInv
<1>4. part = "consent" => ConsentInv'
    BY PartsStep, ConsentGoesOn DEF RunningInv
<1>5. part = "exchange" => ExchangeInv'
    BY PartsStep, ExchangeGoesOn DEF RunningInv
<1>6. part = "container" => ContainerInv'
    BY PartsStep, ContainerGoesOn DEF RunningInv
<1>7. part = "negotiation" => NInv'
    BY PartsStep, NegotiationGoesOn DEF RunningInv
<1>8. part = "search" => RouteInv'
    BY PartsStep, SearchStepInv DEF RunningInv
<1>9. part = "layered" => LayeredInv'
    BY PartsStep, LayeredStepInv DEF RunningInv
<1>10. part = "index" => IndexInv'
    BY PartsStep, IndexGoesOn DEF RunningInv
<1> QED
    BY <1>1, <1>2, <1>3, <1>4, <1>5, <1>6, <1>7, <1>8, <1>9, <1>10 DEF RunningInv

(* Whichever of the components runs keeps its types, for any values of the *)
(* constants: the stores, the broker, the reviews, the exchange, the       *)
(* container, the negotiation, both searches and the indexes.              *)
THEOREM PartsKeepTypes == MCSpec => []PartsTypeOK
<1>1. RunningInv => PartsTypeOK
    <2> SUFFICES ASSUME RunningInv PROVE PartsTypeOK
        OBVIOUS
    <2>1. ArtifactInv => ArtifactsTypeOK
        BY StoredEntries DEF ArtifactInv, StoreOK, ArtifactsTypeOK
    <2>2. HandlesInv => HandlesTypeOK
        BY DEF HandlesInv, HandlesTypeOK
    <2>3. ConsentInv => ConsentTypeOK
        BY ConsentIsTyped
    <2>4. ExchangeInv => ExchangeTypeOK
        BY DEF ExchangeInv
    <2>5. ContainerInv => ContainerTypeOK
        BY DEF ContainerInv
    <2>6. NInv => NegotiationTypeOK
        BY DEF NInv
    <2>7. RouteInv => SearchTypeOK
        BY InvariantTypesSearch
    <2>8. LayeredInv => LayeredTypeOK
        BY InvariantTypesLayers
    <2>9. IndexInv => IndexTypeOK
        BY DEF IndexInv
    <2> QED
        BY <2>1, <2>2, <2>3, <2>4, <2>5, <2>6, <2>7, <2>8, <2>9 DEF RunningInv, PartsTypeOK
<1> QED
    BY <1>1, PartsStart, PartsGoOn, PTL DEF MCSpec
================================================================================
