-------------------------------- MODULE MCParts --------------------------------
(***************************************************************************)
(* The components that share no state with each other, checked side by     *)
(* side: each behaviour is a behaviour of one of them, while the others    *)
(* stay as they start.                                                     *)
(***************************************************************************)
EXTENDS ArtifactStore, TaskHandles, ReviewConsent, IsolatedExchange,
        ConfinedContainer, NegotiatedRouting, RouteSearch, LayeredSearch, SpatialIndex

VARIABLE part \* the component that runs

Parts == {"artifacts", "handles", "consent", "exchange", "container",
          "negotiation", "search", "layered", "index"}

(* The rectangles of the index: both signs, so that division has to round  *)
(* the right way.                                                          *)
MCRectangles ==
    {r \in (-1..1) \X (-1..0) \X (-1..1) \X (-1..0) : r[1] <= r[3] /\ r[2] <= r[4]}

(* Walls of the layered lattice, among them those that make the cheaper    *)
(* way to a node the one that has used up the vias the rest still needs.   *)
Wall(x, ys, l) == {<<x, y, l>> : y \in ys}
MCObstacles ==
    {UNION walls : walls \in SUBSET {Wall(1, {0}, 0), Wall(3, {1}, 0),
                                     Wall(3, {0, 1}, 1), Wall(1, {0}, 1),
                                     Wall(2, {0, 1}, 0)}}
MCKeepouts == {{}, {<<2, 0>>}, {<<4, 1>>, <<0, 0>>}}
MCStart == <<0, 0, 0>>
MCGoals == {MCStart} \cup {<<LayerX, LayerY, l>> : l \in Layers}

(* Pads of one node and pads along a whole side of the lattice.            *)
MCColumn(x) == {x} \X (0..LatticeY)
MCSources == {{<<0, 0>>}, MCColumn(0)}
MCTargets == {{<<LatticeX, LatticeY>>}, MCColumn(LatticeX)}

(* Of four nets the board connects one or two.  With one, a refused pass   *)
(* may have a pair of routes too close, a net without a way and a          *)
(* connected one, and goes on because of the last.                         *)
MCJoined == {{4}, {3, 4}}

(* What varies initially varies in the running component only.             *)
Still ==
    /\ IF part = "handles" THEN TRUE ELSE taskClock = 0
    /\ IF part = "negotiation" THEN joined \in MCJoined
       ELSE terms = [rule |-> "none", replay |-> FALSE] /\ joined = {}
    /\ IF part = "container" THEN TRUE
       ELSE stream = [open |-> {"stdin", "stdout"}, sent |-> FALSE, whole |-> 0,
                      wrote |-> 0, taken |-> 0]
    /\ IF part = "search" THEN TRUE
       ELSE problem = [legal |-> Edges, near |-> {}, priced |-> {}, source |-> {<<0, 0>>},
                       target |-> {<<LatticeX, LatticeY>>}]
    /\ IF part = "layered" THEN TRUE
       ELSE layout = [blocked |-> {}, noVia |-> {}, goal |-> <<LayerX, LayerY, Min(Layers)>>,
                      capped |-> FALSE, cap |-> Min(ViaCaps)]

(* Where no exchange runs, there is none to be fair to.                    *)
NoExchange ==
    /\ supervisor = [state |-> "raised", open |-> {}, ready |-> {},
                     sent |-> 0, received |-> 0, exited |-> FALSE]
    /\ group = {} /\ worker = [read |-> 0, wrote |-> 0, code |-> "running"]
    /\ pipes = [request |-> 0, answer |-> 0, frame |-> "unsent"]
    /\ hour = "over" /\ stopAsked = TRUE

MCInit ==
    /\ part \in Parts /\ Still
    /\ ArtifactInit /\ TaskInit /\ ConsentInit /\ ContainerInit
    /\ NegotiationInit /\ SearchInit /\ LayeredInit /\ IndexInit
    /\ IF part = "exchange" THEN ExchangeInit ELSE NoExchange

Rest(vars) == UNCHANGED <<part, vars>>

MCNext ==
    \/ /\ part = "artifacts" /\ ArtifactNext
       /\ Rest(<<taskVars, consentVars, exchangeVars, containerVars, negotiationVars,
                 searchVars, layeredVars, indexVars>>)
    \/ /\ part = "handles" /\ TaskNext
       /\ Rest(<<artifactVars, consentVars, exchangeVars, containerVars, negotiationVars,
                 searchVars, layeredVars, indexVars>>)
    \/ /\ part = "consent" /\ ConsentNext
       /\ Rest(<<artifactVars, taskVars, exchangeVars, containerVars, negotiationVars,
                 searchVars, layeredVars, indexVars>>)
    \/ /\ part = "exchange" /\ ExchangeNext
       /\ Rest(<<artifactVars, taskVars, consentVars, containerVars, negotiationVars,
                 searchVars, layeredVars, indexVars>>)
    \/ /\ part = "container" /\ ContainerNext
       /\ Rest(<<artifactVars, taskVars, consentVars, exchangeVars, negotiationVars,
                 searchVars, layeredVars, indexVars>>)
    \/ /\ part = "negotiation" /\ NegotiationNext
       /\ Rest(<<artifactVars, taskVars, consentVars, exchangeVars, containerVars,
                 searchVars, layeredVars, indexVars>>)
    \/ /\ part = "search" /\ SearchNext
       /\ Rest(<<artifactVars, taskVars, consentVars, exchangeVars, containerVars,
                 negotiationVars, layeredVars, indexVars>>)
    \/ /\ part = "layered" /\ LayeredNext
       /\ Rest(<<artifactVars, taskVars, consentVars, exchangeVars, containerVars,
                 negotiationVars, searchVars, indexVars>>)
    \/ /\ part = "index" /\ IndexNext
       /\ Rest(<<artifactVars, taskVars, consentVars, exchangeVars, containerVars,
                 negotiationVars, searchVars, layeredVars>>)

MCVars ==
    <<part, artifactVars, taskVars, consentVars, exchangeVars, containerVars,
      negotiationVars, searchVars, layeredVars, indexVars>>

MCSpec == MCInit /\ [][MCNext]_MCVars /\ ExchangeFairness

(* The running component's variables have their types.                     *)
PartsTypeOK ==
    /\ part = "artifacts" => ArtifactsTypeOK
    /\ part = "handles" => HandlesTypeOK
    /\ part = "consent" => ConsentTypeOK
    /\ part = "exchange" => ExchangeTypeOK
    /\ part = "container" => ContainerTypeOK
    /\ part = "negotiation" => NegotiationTypeOK
    /\ part = "search" => SearchTypeOK
    /\ part = "layered" => LayeredTypeOK
    /\ part = "index" => IndexTypeOK
================================================================================
