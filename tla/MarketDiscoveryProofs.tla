----------------------- MODULE MarketDiscoveryProofs -----------------------
(***************************************************************************)
(* Theorems about MarketDiscovery for every set of markets, matches and    *)
(* texts, and about MarketBook for every set of books, with any number of  *)
(* changes and faults.                                                     *)
(***************************************************************************)
EXTENDS MCMarketDiscovery, TLAPS

\* The job has read its scan and maps one listing after the other
Mapping == job \in {"link", "commit", "rules"}

\* A listing is mapped once
TargetIsTaken ==
    /\ Mapping => target \in seen \ todo
    /\ job \in {"idle", "scan", "reconcile", "read"} => auth = NoAuthority
    /\ \A m \in Markets : auth[m] # None => m \notin todo

\* What is authorized and not yet published is current, and the target has
\* no authorization while it is on its way to one
AuthIsCurrent ==
    /\ \A m \in Markets :
        auth[m] # None =>
            /\ rules[m] # <<>>
            /\ auth[m].version = Len(rules[m])
            /\ auth[m].hash = rules[m][Len(rules[m])]
    /\ Mapping => auth[target] = None

\* While the job is under way the index answers nothing
IndexIsQuiet == job # "idle" => index = NoAuthority

\* A decision on its way names a market
ChosenIsThere == \A mt \in Matches : deciding[mt] # "idle" => chosen[mt] \in Markets

\* A market that no page was missing for was read, or was not listed
ScanIsWhole ==
    /\ \A m \in Markets : m \notin listed => m \in delisted
    /\ job \in {"scan", "reconcile"} /\ missed = {}
        => \A m \in Markets : m \in pages \cup seen \cup delisted
    /\ job = "reconcile" => pages = {}

RulesInv == TypeOK /\ TargetIsTaken /\ AuthIsCurrent /\ IndexIsQuiet
            /\ RulesAreCurrent

LEMMA TypeInit == Init => TypeOK
BY DiscoveryAssumption DEF DiscoveryAssumption, Init, TypeOK, NoAuthority, Jobs

LEMMA LinkedMarket ==
    ASSUME TypeOK, NEW mt \in Matches
    PROVE  MarketFor(mt) \in Markets \cup {None}
BY DEF MarketFor, TypeOK

LEMMA TypeNext ==
    ASSUME DiscoveryAssumption, TypeOK, TargetIsTaken, [Next]_vars PROVE TypeOK'
<1> USE DEF DiscoveryAssumption, TypeOK, TargetIsTaken, Mapping, Jobs, provider,
            links, rows, scan, work, decision
<1>1. ASSUME NEW m \in Markets, EditRules(m) PROVE TypeOK'
  <2>1. PICK t \in Texts \cup {None} : text' = [text EXCEPT ![m] = t]
    BY <1>1 DEF EditRules
  <2> QED BY <1>1, <2>1 DEF EditRules, Edit
<1>2. ASSUME NEW m \in Markets, Delist(m) PROVE TypeOK'
    BY <1>2 DEF Delist, Edit
<1>3. ASSUME NEW m \in Markets, Relist(m) PROVE TypeOK'
    BY <1>3 DEF Relist, Edit
<1>4. ASSUME NEW m \in Markets, NameIsLost(m) PROVE TypeOK'
    BY <1>4 DEF NameIsLost, Edit
<1>5. ASSUME NEW mt \in Matches, MatchEnds(mt) PROVE TypeOK'
    BY <1>5 DEF MatchEnds, Edit
<1>6. ASSUME StartDiscovery PROVE TypeOK'
    BY <1>6 DEF StartDiscovery, Invalidated, NoAuthority
<1>7. ASSUME NEW m \in Markets, ReadPage(m) PROVE TypeOK'
  <2>1. CASE m \in listed
    <3>1. Registered(m) \in {"unknown", "open", "closed"} BY DEF Registered
    <3>2. row' \in [Markets -> {"none", "unknown", "open", "closed"}]
      BY <1>7, <2>1, <3>1 DEF ReadPage
    <3>3. scanned' \in [Markets -> Texts \cup {None}]
      BY <1>7, <2>1 DEF ReadPage
    <3>4. seen' \subseteq Markets /\ strict' \subseteq seen' /\ todo' \subseteq seen'
      BY <1>7, <2>1 DEF ReadPage
    <3> QED BY <1>7, <3>2, <3>3, <3>4 DEF ReadPage
  <2>2. CASE m \notin listed BY <1>7, <2>2 DEF ReadPage
  <2> QED BY <2>1, <2>2
<1>8. ASSUME NEW m \in Markets, ReadMalformed(m) PROVE TypeOK'
    BY <1>8 DEF ReadMalformed
<1>9. ASSUME ScanEnds PROVE TypeOK'
    BY <1>9 DEF ScanEnds
<1>10. ASSUME ReconcileListings PROVE TypeOK'
    BY <1>10 DEF ReconcileListings, Retired
<1>11. ASSUME ReadCatalog PROVE TypeOK'
  <2>1. current' \in [Matches -> Markets \cup {None}]
    BY <1>11, LinkedMarket DEF ReadCatalog
  <2> QED BY <1>11, <2>1 DEF ReadCatalog
<1>12. ASSUME NEW m \in Markets, MapMarket(m) PROVE TypeOK'
    BY <1>12 DEF MapMarket, MappedTo
<1>13. ASSUME CheckLink PROVE TypeOK'
    BY <1>13 DEF CheckLink, MappedTo
<1>14. ASSUME CommitLink PROVE TypeOK'
  <2>1. PICK mt \in MappedTo(target) :
            /\ linkedTo' = [linkedTo EXCEPT ![target] = mt]
            /\ active' = {m \in active : linkedTo[m] # mt} \cup {target}
            /\ current' = [current EXCEPT ![mt] = target]
    BY <1>14 DEF CommitLink
  <2>2. target \in Markets BY <1>14 DEF CommitLink
  <2>3. mt \in Matches BY <2>1, <2>2 DEF MappedTo
  <2> QED BY <1>14, <2>1, <2>2, <2>3 DEF CommitLink
<1>15. ASSUME SaveRules PROVE TypeOK'
  <2>1. target \in Markets BY <1>15 DEF SaveRules
  <2>2. ASSUME scanned[target] # None, NEW v \in Nat \ {0}, Authorize(v)
        PROVE  auth' \in [Markets -> Authorizations \cup {None}]
    BY <2>1, <2>2 DEF Authorize, Authorizations
  <2>3. rules[target] \in Seq(Texts) /\ Len(rules[target]) \in Nat BY <2>1
  <2>4. auth' \in [Markets -> Authorizations \cup {None}]
    BY <1>15, <2>2, <2>3 DEF SaveRules, Confirms
  <2>5. CASE rules' = rules BY <1>15, <2>4, <2>5 DEF SaveRules
  <2>6. CASE /\ scanned[target] # None
             /\ rules' = [rules EXCEPT ![target] = Append(@, scanned[target])]
    <3>1. scanned[target] \in Texts BY <2>1, <2>6
    <3>2. Append(rules[target], scanned[target]) \in Seq(Texts)
      BY <2>3, <3>1
    <3>3. rules' \in [Markets -> Seq(Texts)] BY <2>1, <2>6, <3>2
    <3> QED BY <1>15, <2>4, <3>3 DEF SaveRules
  <2> QED BY <1>15, <2>5, <2>6 DEF SaveRules
<1>16. ASSUME MarketFails PROVE TypeOK'
  <2>1. target \in Markets BY <1>16 DEF MarketFails
  <2> QED BY <1>16, <2>1 DEF MarketFails
<1>17. ASSUME FinishDiscovery PROVE TypeOK'
    BY <1>17 DEF FinishDiscovery, JobEnds, NoAuthority
<1>18. ASSUME JobFails PROVE TypeOK'
    BY <1>18 DEF JobFails, JobEnds, NoAuthority
<1>19. ASSUME IndexExpires PROVE TypeOK'
    BY <1>19 DEF IndexExpires, NoAuthority
<1>20. ASSUME Restart PROVE TypeOK'
    BY <1>20 DEF Restart, JobEnds, NoAuthority
<1>21. ASSUME NEW mt \in Matches, ReadLink(mt) PROVE TypeOK'
  <2>1. chosen' \in [Matches -> Markets \cup {None}]
    BY <1>21, LinkedMarket DEF ReadLink
  <2> QED BY <1>21, <2>1 DEF ReadLink
<1>22. ASSUME NEW mt \in Matches, ReadRules(mt) PROVE TypeOK'
    BY <1>22 DEF ReadRules, DecisionEnds, MayAct
<1>23. ASSUME NEW mt \in Matches, BeginEntry(mt) PROVE TypeOK'
    BY <1>23 DEF BeginEntry, DecisionEnds
<1>24. ASSUME NEW mt \in Matches, NoEntry(mt) PROVE TypeOK'
    BY <1>24 DEF NoEntry, DecisionEnds
<1>25. CASE UNCHANGED vars BY <1>25 DEF vars
<1> QED BY <1>1, <1>2, <1>3, <1>4, <1>5, <1>6, <1>7, <1>8, <1>9, <1>10, <1>11, <1>12, <1>13, <1>14, <1>15, <1>16, <1>17, <1>18, <1>19, <1>20, <1>21, <1>22, <1>23, <1>24, <1>25
    DEF Next, Discover, Decide, Environment

LEMMA TargetNext ==
    ASSUME TypeOK, TargetIsTaken, [Next]_vars PROVE TargetIsTaken'
<1> USE DEF TypeOK, TargetIsTaken, Mapping, NoAuthority, provider, links, rows,
            scan, work, decision
<1>1. ASSUME NEW m \in Markets, EditRules(m) PROVE TargetIsTaken'
    BY <1>1 DEF EditRules, Edit
<1>2. ASSUME NEW m \in Markets, Delist(m) PROVE TargetIsTaken'
    BY <1>2 DEF Delist, Edit
<1>3. ASSUME NEW m \in Markets, Relist(m) PROVE TargetIsTaken'
    BY <1>3 DEF Relist, Edit
<1>4. ASSUME NEW m \in Markets, NameIsLost(m) PROVE TargetIsTaken'
    BY <1>4 DEF NameIsLost, Edit
<1>5. ASSUME NEW mt \in Matches, MatchEnds(mt) PROVE TargetIsTaken'
    BY <1>5 DEF MatchEnds, Edit
<1>6. ASSUME StartDiscovery PROVE TargetIsTaken'
    BY <1>6 DEF StartDiscovery, Invalidated, NoAuthority
<1>7. ASSUME NEW m \in Markets, ReadPage(m) PROVE TargetIsTaken'
    BY <1>7 DEF ReadPage, Registered
<1>8. ASSUME NEW m \in Markets, ReadMalformed(m) PROVE TargetIsTaken'
    BY <1>8 DEF ReadMalformed
<1>9. ASSUME ScanEnds PROVE TargetIsTaken'
    BY <1>9 DEF ScanEnds
<1>10. ASSUME ReconcileListings PROVE TargetIsTaken'
    BY <1>10 DEF ReconcileListings, Retired
<1>11. ASSUME ReadCatalog PROVE TargetIsTaken'
    BY <1>11 DEF ReadCatalog
<1>12. ASSUME NEW m \in Markets, MapMarket(m) PROVE TargetIsTaken'
    BY <1>12 DEF MapMarket, MappedTo
<1>13. ASSUME CheckLink PROVE TargetIsTaken'
    BY <1>13 DEF CheckLink, MappedTo
<1>14. ASSUME CommitLink PROVE TargetIsTaken'
    BY <1>14 DEF CommitLink, MappedTo
<1>15. ASSUME SaveRules PROVE TargetIsTaken'
    BY <1>15 DEF SaveRules, Authorize, Confirms, Authorizations
<1>16. ASSUME MarketFails PROVE TargetIsTaken'
    BY <1>16 DEF MarketFails
<1>17. ASSUME FinishDiscovery PROVE TargetIsTaken'
    BY <1>17 DEF FinishDiscovery, JobEnds, NoAuthority
<1>18. ASSUME JobFails PROVE TargetIsTaken'
    BY <1>18 DEF JobFails, JobEnds, NoAuthority
<1>19. ASSUME IndexExpires PROVE TargetIsTaken'
    BY <1>19 DEF IndexExpires, NoAuthority
<1>20. ASSUME Restart PROVE TargetIsTaken'
    BY <1>20 DEF Restart, JobEnds, NoAuthority
<1>21. ASSUME NEW mt \in Matches, ReadLink(mt) PROVE TargetIsTaken'
    BY <1>21 DEF ReadLink
<1>22. ASSUME NEW mt \in Matches, ReadRules(mt) PROVE TargetIsTaken'
    BY <1>22 DEF ReadRules, DecisionEnds, MayAct
<1>23. ASSUME NEW mt \in Matches, BeginEntry(mt) PROVE TargetIsTaken'
    BY <1>23 DEF BeginEntry, DecisionEnds
<1>24. ASSUME NEW mt \in Matches, NoEntry(mt) PROVE TargetIsTaken'
    BY <1>24 DEF NoEntry, DecisionEnds
<1>25. CASE UNCHANGED vars BY <1>25 DEF vars
<1> QED BY <1>1, <1>2, <1>3, <1>4, <1>5, <1>6, <1>7, <1>8, <1>9, <1>10, <1>11, <1>12, <1>13, <1>14, <1>15, <1>16, <1>17, <1>18, <1>19, <1>20, <1>21, <1>22, <1>23, <1>24, <1>25
    DEF Next, Discover, Decide, Environment

LEMMA TypeInvHolds == Spec => [](TypeOK /\ TargetIsTaken)
<1>1. Init => TypeOK /\ TargetIsTaken
    BY TypeInit DEF Init, TargetIsTaken, Mapping
<1>2. TypeOK /\ TargetIsTaken /\ [Next]_vars => (TypeOK /\ TargetIsTaken)'
    BY DiscoveryAssumption, TypeNext, TargetNext
<1> QED BY <1>1, <1>2, PTL DEF Spec

\* Every variable has its type, whatever the markets, matches and texts are:
\* the rows, the index and the job of _discover_markets.
THEOREM TypeIsInvariant == Spec => []TypeOK
BY TypeInvHolds, PTL
-----------------------------------------------------------------------------
LEMMA WholeNext ==
    ASSUME TypeOK, ScanIsWhole, [Next]_vars PROVE ScanIsWhole'
<1> USE DEF TypeOK, ScanIsWhole, provider, links, rows, scan, work, decision
<1>1. ASSUME NEW m \in Markets, EditRules(m) PROVE ScanIsWhole'
    BY <1>1 DEF EditRules, Edit
<1>2. ASSUME NEW m \in Markets, Delist(m) PROVE ScanIsWhole'
    BY <1>2 DEF Delist, Edit
<1>3. ASSUME NEW m \in Markets, Relist(m) PROVE ScanIsWhole'
    BY <1>3 DEF Relist, Edit
<1>4. ASSUME NEW m \in Markets, NameIsLost(m) PROVE ScanIsWhole'
    BY <1>4 DEF NameIsLost, Edit
<1>5. ASSUME NEW mt \in Matches, MatchEnds(mt) PROVE ScanIsWhole'
    BY <1>5 DEF MatchEnds, Edit
<1>6. ASSUME StartDiscovery PROVE ScanIsWhole'
    BY <1>6 DEF StartDiscovery, Invalidated, NoAuthority
<1>7. ASSUME NEW m \in Markets, ReadPage(m) PROVE ScanIsWhole'
    BY <1>7 DEF ReadPage, Registered
<1>8. ASSUME NEW m \in Markets, ReadMalformed(m) PROVE ScanIsWhole'
    BY <1>8 DEF ReadMalformed
<1>9. ASSUME ScanEnds PROVE ScanIsWhole'
    BY <1>9 DEF ScanEnds
<1>10. ASSUME ReconcileListings PROVE ScanIsWhole'
    BY <1>10 DEF ReconcileListings, Retired
<1>11. ASSUME ReadCatalog PROVE ScanIsWhole'
    BY <1>11 DEF ReadCatalog
<1>12. ASSUME NEW m \in Markets, MapMarket(m) PROVE ScanIsWhole'
    BY <1>12 DEF MapMarket, MappedTo
<1>13. ASSUME CheckLink PROVE ScanIsWhole'
    BY <1>13 DEF CheckLink, MappedTo
<1>14. ASSUME CommitLink PROVE ScanIsWhole'
    BY <1>14 DEF CommitLink, MappedTo
<1>15. ASSUME SaveRules PROVE ScanIsWhole'
    BY <1>15 DEF SaveRules, Authorize, Confirms, Authorizations
<1>16. ASSUME MarketFails PROVE ScanIsWhole'
    BY <1>16 DEF MarketFails
<1>17. ASSUME FinishDiscovery PROVE ScanIsWhole'
    BY <1>17 DEF FinishDiscovery, JobEnds, NoAuthority
<1>18. ASSUME JobFails PROVE ScanIsWhole'
    BY <1>18 DEF JobFails, JobEnds, NoAuthority
<1>19. ASSUME IndexExpires PROVE ScanIsWhole'
    BY <1>19 DEF IndexExpires, NoAuthority
<1>20. ASSUME Restart PROVE ScanIsWhole'
    BY <1>20 DEF Restart, JobEnds, NoAuthority
<1>21. ASSUME NEW mt \in Matches, ReadLink(mt) PROVE ScanIsWhole'
    BY <1>21 DEF ReadLink
<1>22. ASSUME NEW mt \in Matches, ReadRules(mt) PROVE ScanIsWhole'
    BY <1>22 DEF ReadRules, DecisionEnds, MayAct
<1>23. ASSUME NEW mt \in Matches, BeginEntry(mt) PROVE ScanIsWhole'
    BY <1>23 DEF BeginEntry, DecisionEnds
<1>24. ASSUME NEW mt \in Matches, NoEntry(mt) PROVE ScanIsWhole'
    BY <1>24 DEF NoEntry, DecisionEnds
<1>25. CASE UNCHANGED vars BY <1>25 DEF vars
<1> QED BY <1>1, <1>2, <1>3, <1>4, <1>5, <1>6, <1>7, <1>8, <1>9, <1>10, <1>11, <1>12, <1>13, <1>14, <1>15, <1>16, <1>17, <1>18, <1>19, <1>20, <1>21, <1>22, <1>23, <1>24, <1>25
    DEF Next, Discover, Decide, Environment

LEMMA ClosedNext ==
    ASSUME TypeOK, ScanIsWhole, ClosedOnceDelisted, [Next]_vars
    PROVE  ClosedOnceDelisted'
<1> USE DEF TypeOK, ScanIsWhole, ClosedOnceDelisted, provider, links, rows, scan,
            work, decision
<1>1. ASSUME NEW m \in Markets, EditRules(m) PROVE ClosedOnceDelisted'
    BY <1>1 DEF EditRules, Edit
<1>2. ASSUME NEW m \in Markets, Delist(m) PROVE ClosedOnceDelisted'
    BY <1>2 DEF Delist, Edit
<1>3. ASSUME NEW m \in Markets, Relist(m) PROVE ClosedOnceDelisted'
    BY <1>3 DEF Relist, Edit
<1>4. ASSUME NEW m \in Markets, NameIsLost(m) PROVE ClosedOnceDelisted'
    BY <1>4 DEF NameIsLost, Edit
<1>5. ASSUME NEW mt \in Matches, MatchEnds(mt) PROVE ClosedOnceDelisted'
    BY <1>5 DEF MatchEnds, Edit
<1>6. ASSUME StartDiscovery PROVE ClosedOnceDelisted'
    BY <1>6 DEF StartDiscovery, Invalidated, NoAuthority
<1>7. ASSUME NEW m \in Markets, ReadPage(m) PROVE ClosedOnceDelisted'
    BY <1>7 DEF ReadPage, Registered
<1>8. ASSUME NEW m \in Markets, ReadMalformed(m) PROVE ClosedOnceDelisted'
    BY <1>8 DEF ReadMalformed
<1>9. ASSUME ScanEnds PROVE ClosedOnceDelisted'
    BY <1>9 DEF ScanEnds
<1>10. ASSUME ReconcileListings PROVE ClosedOnceDelisted'
    BY <1>10 DEF ReconcileListings, Retired
<1>11. ASSUME ReadCatalog PROVE ClosedOnceDelisted'
    BY <1>11 DEF ReadCatalog
<1>12. ASSUME NEW m \in Markets, MapMarket(m) PROVE ClosedOnceDelisted'
    BY <1>12 DEF MapMarket, MappedTo
<1>13. ASSUME CheckLink PROVE ClosedOnceDelisted'
    BY <1>13 DEF CheckLink, MappedTo
<1>14. ASSUME CommitLink PROVE ClosedOnceDelisted'
    BY <1>14 DEF CommitLink, MappedTo
<1>15. ASSUME SaveRules PROVE ClosedOnceDelisted'
    BY <1>15 DEF SaveRules, Authorize, Confirms, Authorizations
<1>16. ASSUME MarketFails PROVE ClosedOnceDelisted'
    BY <1>16 DEF MarketFails
<1>17. ASSUME FinishDiscovery PROVE ClosedOnceDelisted'
    BY <1>17 DEF FinishDiscovery, JobEnds, NoAuthority
<1>18. ASSUME JobFails PROVE ClosedOnceDelisted'
    BY <1>18 DEF JobFails, JobEnds, NoAuthority
<1>19. ASSUME IndexExpires PROVE ClosedOnceDelisted'
    BY <1>19 DEF IndexExpires, NoAuthority
<1>20. ASSUME Restart PROVE ClosedOnceDelisted'
    BY <1>20 DEF Restart, JobEnds, NoAuthority
<1>21. ASSUME NEW mt \in Matches, ReadLink(mt) PROVE ClosedOnceDelisted'
    BY <1>21 DEF ReadLink
<1>22. ASSUME NEW mt \in Matches, ReadRules(mt) PROVE ClosedOnceDelisted'
    BY <1>22 DEF ReadRules, DecisionEnds, MayAct
<1>23. ASSUME NEW mt \in Matches, BeginEntry(mt) PROVE ClosedOnceDelisted'
    BY <1>23 DEF BeginEntry, DecisionEnds
<1>24. ASSUME NEW mt \in Matches, NoEntry(mt) PROVE ClosedOnceDelisted'
    BY <1>24 DEF NoEntry, DecisionEnds
<1>25. CASE UNCHANGED vars BY <1>25 DEF vars
<1> QED BY <1>1, <1>2, <1>3, <1>4, <1>5, <1>6, <1>7, <1>8, <1>9, <1>10, <1>11, <1>12, <1>13, <1>14, <1>15, <1>16, <1>17, <1>18, <1>19, <1>20, <1>21, <1>22, <1>23, <1>24, <1>25
    DEF Next, Discover, Decide, Environment

\* No market is closed that the provider has always listed: malformed pages,
\* failures and interruptions retire nothing (reconcile_market_listings).
THEOREM OnlyDelistedAreClosed == Spec => []ClosedOnceDelisted
<1>1. Init => ScanIsWhole /\ ClosedOnceDelisted
    BY DEF Init, ScanIsWhole, ClosedOnceDelisted
<1>2. TypeOK /\ ScanIsWhole /\ ClosedOnceDelisted /\ [Next]_vars
        => (ScanIsWhole /\ ClosedOnceDelisted)'
    BY WholeNext, ClosedNext
<1> QED BY <1>1, <1>2, TypeIsInvariant, PTL DEF Spec
-----------------------------------------------------------------------------
LEMMA AuthNext ==
    ASSUME TypeOK, TargetIsTaken, AuthIsCurrent, [Next]_vars
    PROVE  AuthIsCurrent'
<1> USE DEF TypeOK, TargetIsTaken, AuthIsCurrent, Mapping, NoAuthority, provider,
            links, rows, scan, work, decision
<1>1. ASSUME NEW m \in Markets, EditRules(m) PROVE AuthIsCurrent'
    BY <1>1 DEF EditRules, Edit
<1>2. ASSUME NEW m \in Markets, Delist(m) PROVE AuthIsCurrent'
    BY <1>2 DEF Delist, Edit
<1>3. ASSUME NEW m \in Markets, Relist(m) PROVE AuthIsCurrent'
    BY <1>3 DEF Relist, Edit
<1>4. ASSUME NEW m \in Markets, NameIsLost(m) PROVE AuthIsCurrent'
    BY <1>4 DEF NameIsLost, Edit
<1>5. ASSUME NEW mt \in Matches, MatchEnds(mt) PROVE AuthIsCurrent'
    BY <1>5 DEF MatchEnds, Edit
<1>6. ASSUME StartDiscovery PROVE AuthIsCurrent'
    BY <1>6 DEF StartDiscovery, Invalidated, NoAuthority
<1>7. ASSUME NEW m \in Markets, ReadPage(m) PROVE AuthIsCurrent'
    BY <1>7 DEF ReadPage, Registered
<1>8. ASSUME NEW m \in Markets, ReadMalformed(m) PROVE AuthIsCurrent'
    BY <1>8 DEF ReadMalformed
<1>9. ASSUME ScanEnds PROVE AuthIsCurrent'
    BY <1>9 DEF ScanEnds
<1>10. ASSUME ReconcileListings PROVE AuthIsCurrent'
    BY <1>10 DEF ReconcileListings, Retired
<1>11. ASSUME ReadCatalog PROVE AuthIsCurrent'
    BY <1>11 DEF ReadCatalog
<1>12. ASSUME NEW m \in Markets, MapMarket(m) PROVE AuthIsCurrent'
    BY <1>12 DEF MapMarket, MappedTo
<1>13. ASSUME CheckLink PROVE AuthIsCurrent'
    BY <1>13 DEF CheckLink, MappedTo
<1>14. ASSUME CommitLink PROVE AuthIsCurrent'
    BY <1>14 DEF CommitLink, MappedTo
<1>15. ASSUME SaveRules PROVE AuthIsCurrent'
    BY <1>15 DEF SaveRules, Authorize, Confirms, Authorizations
<1>16. ASSUME MarketFails PROVE AuthIsCurrent'
    BY <1>16 DEF MarketFails
<1>17. ASSUME FinishDiscovery PROVE AuthIsCurrent'
    BY <1>17 DEF FinishDiscovery, JobEnds, NoAuthority
<1>18. ASSUME JobFails PROVE AuthIsCurrent'
    BY <1>18 DEF JobFails, JobEnds, NoAuthority
<1>19. ASSUME IndexExpires PROVE AuthIsCurrent'
    BY <1>19 DEF IndexExpires, NoAuthority
<1>20. ASSUME Restart PROVE AuthIsCurrent'
    BY <1>20 DEF Restart, JobEnds, NoAuthority
<1>21. ASSUME NEW mt \in Matches, ReadLink(mt) PROVE AuthIsCurrent'
    BY <1>21 DEF ReadLink
<1>22. ASSUME NEW mt \in Matches, ReadRules(mt) PROVE AuthIsCurrent'
    BY <1>22 DEF ReadRules, DecisionEnds, MayAct
<1>23. ASSUME NEW mt \in Matches, BeginEntry(mt) PROVE AuthIsCurrent'
    BY <1>23 DEF BeginEntry, DecisionEnds
<1>24. ASSUME NEW mt \in Matches, NoEntry(mt) PROVE AuthIsCurrent'
    BY <1>24 DEF NoEntry, DecisionEnds
<1>25. CASE UNCHANGED vars BY <1>25 DEF vars
<1> QED BY <1>1, <1>2, <1>3, <1>4, <1>5, <1>6, <1>7, <1>8, <1>9, <1>10, <1>11, <1>12, <1>13, <1>14, <1>15, <1>16, <1>17, <1>18, <1>19, <1>20, <1>21, <1>22, <1>23, <1>24, <1>25
    DEF Next, Discover, Decide, Environment

LEMMA QuietNext == ASSUME TypeOK, IndexIsQuiet, [Next]_vars PROVE IndexIsQuiet'
<1> USE DEF TypeOK, IndexIsQuiet, provider, links, rows, scan, work, decision
<1>1. ASSUME NEW m \in Markets, EditRules(m) PROVE IndexIsQuiet'
    BY <1>1 DEF EditRules, Edit
<1>2. ASSUME NEW m \in Markets, Delist(m) PROVE IndexIsQuiet'
    BY <1>2 DEF Delist, Edit
<1>3. ASSUME NEW m \in Markets, Relist(m) PROVE IndexIsQuiet'
    BY <1>3 DEF Relist, Edit
<1>4. ASSUME NEW m \in Markets, NameIsLost(m) PROVE IndexIsQuiet'
    BY <1>4 DEF NameIsLost, Edit
<1>5. ASSUME NEW mt \in Matches, MatchEnds(mt) PROVE IndexIsQuiet'
    BY <1>5 DEF MatchEnds, Edit
<1>6. ASSUME StartDiscovery PROVE IndexIsQuiet'
    BY <1>6 DEF StartDiscovery, Invalidated, NoAuthority
<1>7. ASSUME NEW m \in Markets, ReadPage(m) PROVE IndexIsQuiet'
    BY <1>7 DEF ReadPage, Registered
<1>8. ASSUME NEW m \in Markets, ReadMalformed(m) PROVE IndexIsQuiet'
    BY <1>8 DEF ReadMalformed
<1>9. ASSUME ScanEnds PROVE IndexIsQuiet'
    BY <1>9 DEF ScanEnds
<1>10. ASSUME ReconcileListings PROVE IndexIsQuiet'
    BY <1>10 DEF ReconcileListings, Retired
<1>11. ASSUME ReadCatalog PROVE IndexIsQuiet'
    BY <1>11 DEF ReadCatalog
<1>12. ASSUME NEW m \in Markets, MapMarket(m) PROVE IndexIsQuiet'
    BY <1>12 DEF MapMarket, MappedTo
<1>13. ASSUME CheckLink PROVE IndexIsQuiet'
    BY <1>13 DEF CheckLink, MappedTo
<1>14. ASSUME CommitLink PROVE IndexIsQuiet'
    BY <1>14 DEF CommitLink, MappedTo
<1>15. ASSUME SaveRules PROVE IndexIsQuiet'
    BY <1>15 DEF SaveRules, Authorize, Confirms, Authorizations
<1>16. ASSUME MarketFails PROVE IndexIsQuiet'
    BY <1>16 DEF MarketFails
<1>17. ASSUME FinishDiscovery PROVE IndexIsQuiet'
    BY <1>17 DEF FinishDiscovery, JobEnds, NoAuthority
<1>18. ASSUME JobFails PROVE IndexIsQuiet'
    BY <1>18 DEF JobFails, JobEnds, NoAuthority
<1>19. ASSUME IndexExpires PROVE IndexIsQuiet'
    BY <1>19 DEF IndexExpires, NoAuthority
<1>20. ASSUME Restart PROVE IndexIsQuiet'
    BY <1>20 DEF Restart, JobEnds, NoAuthority
<1>21. ASSUME NEW mt \in Matches, ReadLink(mt) PROVE IndexIsQuiet'
    BY <1>21 DEF ReadLink
<1>22. ASSUME NEW mt \in Matches, ReadRules(mt) PROVE IndexIsQuiet'
    BY <1>22 DEF ReadRules, DecisionEnds, MayAct
<1>23. ASSUME NEW mt \in Matches, BeginEntry(mt) PROVE IndexIsQuiet'
    BY <1>23 DEF BeginEntry, DecisionEnds
<1>24. ASSUME NEW mt \in Matches, NoEntry(mt) PROVE IndexIsQuiet'
    BY <1>24 DEF NoEntry, DecisionEnds
<1>25. CASE UNCHANGED vars BY <1>25 DEF vars
<1> QED BY <1>1, <1>2, <1>3, <1>4, <1>5, <1>6, <1>7, <1>8, <1>9, <1>10, <1>11, <1>12, <1>13, <1>14, <1>15, <1>16, <1>17, <1>18, <1>19, <1>20, <1>21, <1>22, <1>23, <1>24, <1>25
    DEF Next, Discover, Decide, Environment

LEMMA CurrentNext ==
    ASSUME TypeOK, AuthIsCurrent, IndexIsQuiet, RulesAreCurrent, [Next]_vars
    PROVE  RulesAreCurrent'
<1> USE DEF TypeOK, AuthIsCurrent, IndexIsQuiet, RulesAreCurrent, NoAuthority,
            provider, links, rows, scan, work, decision
<1>1. ASSUME NEW m \in Markets, EditRules(m) PROVE RulesAreCurrent'
    BY <1>1 DEF EditRules, Edit
<1>2. ASSUME NEW m \in Markets, Delist(m) PROVE RulesAreCurrent'
    BY <1>2 DEF Delist, Edit
<1>3. ASSUME NEW m \in Markets, Relist(m) PROVE RulesAreCurrent'
    BY <1>3 DEF Relist, Edit
<1>4. ASSUME NEW m \in Markets, NameIsLost(m) PROVE RulesAreCurrent'
    BY <1>4 DEF NameIsLost, Edit
<1>5. ASSUME NEW mt \in Matches, MatchEnds(mt) PROVE RulesAreCurrent'
    BY <1>5 DEF MatchEnds, Edit
<1>6. ASSUME StartDiscovery PROVE RulesAreCurrent'
    BY <1>6 DEF StartDiscovery, Invalidated, NoAuthority
<1>7. ASSUME NEW m \in Markets, ReadPage(m) PROVE RulesAreCurrent'
    BY <1>7 DEF ReadPage, Registered
<1>8. ASSUME NEW m \in Markets, ReadMalformed(m) PROVE RulesAreCurrent'
    BY <1>8 DEF ReadMalformed
<1>9. ASSUME ScanEnds PROVE RulesAreCurrent'
    BY <1>9 DEF ScanEnds
<1>10. ASSUME ReconcileListings PROVE RulesAreCurrent'
    BY <1>10 DEF ReconcileListings, Retired
<1>11. ASSUME ReadCatalog PROVE RulesAreCurrent'
    BY <1>11 DEF ReadCatalog
<1>12. ASSUME NEW m \in Markets, MapMarket(m) PROVE RulesAreCurrent'
    BY <1>12 DEF MapMarket, MappedTo
<1>13. ASSUME CheckLink PROVE RulesAreCurrent'
    BY <1>13 DEF CheckLink, MappedTo
<1>14. ASSUME CommitLink PROVE RulesAreCurrent'
    BY <1>14 DEF CommitLink, MappedTo
<1>15. ASSUME SaveRules PROVE RulesAreCurrent'
    BY <1>15 DEF SaveRules, Authorize, Confirms, Authorizations
<1>16. ASSUME MarketFails PROVE RulesAreCurrent'
    BY <1>16 DEF MarketFails
<1>17. ASSUME FinishDiscovery PROVE RulesAreCurrent'
    BY <1>17 DEF FinishDiscovery, JobEnds, NoAuthority
<1>18. ASSUME JobFails PROVE RulesAreCurrent'
    BY <1>18 DEF JobFails, JobEnds, NoAuthority
<1>19. ASSUME IndexExpires PROVE RulesAreCurrent'
    BY <1>19 DEF IndexExpires, NoAuthority
<1>20. ASSUME Restart PROVE RulesAreCurrent'
    BY <1>20 DEF Restart, JobEnds, NoAuthority
<1>21. ASSUME NEW mt \in Matches, ReadLink(mt) PROVE RulesAreCurrent'
    BY <1>21 DEF ReadLink
<1>22. ASSUME NEW mt \in Matches, ReadRules(mt) PROVE RulesAreCurrent'
    BY <1>22 DEF ReadRules, DecisionEnds, MayAct
<1>23. ASSUME NEW mt \in Matches, BeginEntry(mt) PROVE RulesAreCurrent'
    BY <1>23 DEF BeginEntry, DecisionEnds
<1>24. ASSUME NEW mt \in Matches, NoEntry(mt) PROVE RulesAreCurrent'
    BY <1>24 DEF NoEntry, DecisionEnds
<1>25. CASE UNCHANGED vars BY <1>25 DEF vars
<1> QED BY <1>1, <1>2, <1>3, <1>4, <1>5, <1>6, <1>7, <1>8, <1>9, <1>10, <1>11, <1>12, <1>13, <1>14, <1>15, <1>16, <1>17, <1>18, <1>19, <1>20, <1>21, <1>22, <1>23, <1>24, <1>25
    DEF Next, Discover, Decide, Environment

LEMMA RulesInvHolds == Spec => []RulesInv
<1>1. Init => AuthIsCurrent /\ IndexIsQuiet /\ RulesAreCurrent
    BY DEF Init, AuthIsCurrent, IndexIsQuiet, RulesAreCurrent, Mapping,
           NoAuthority
<1>2. TypeOK /\ TargetIsTaken /\ AuthIsCurrent /\ IndexIsQuiet
        /\ RulesAreCurrent /\ [Next]_vars
        => (AuthIsCurrent /\ IndexIsQuiet /\ RulesAreCurrent)'
    BY AuthNext, QuietNext, CurrentNext
<1>3. TypeOK /\ TargetIsTaken /\ AuthIsCurrent /\ IndexIsQuiet
        /\ RulesAreCurrent => RulesInv
    BY DEF RulesInv
<1> QED BY <1>1, <1>2, <1>3, TypeInvHolds, PTL DEF Spec

\* The index never answers for a market with rules that are not the latest
\* stored ones (MarketRulesIndex, _discover_markets, save_rules).
THEOREM IndexIsCurrent == Spec => []RulesAreCurrent
<1>1. RulesInv => RulesAreCurrent BY DEF RulesInv
<1> QED BY <1>1, RulesInvHolds, PTL
-----------------------------------------------------------------------------
LEMMA ChosenNext ==
    ASSUME DiscoveryAssumption, TypeOK, ChosenIsThere, [Next]_vars
    PROVE  ChosenIsThere'
<1> USE DEF DiscoveryAssumption, TypeOK, ChosenIsThere, provider, links, rows,
            scan, work, decision
<1>1. ASSUME NEW m \in Markets, EditRules(m) PROVE ChosenIsThere'
    BY <1>1 DEF EditRules, Edit
<1>2. ASSUME NEW m \in Markets, Delist(m) PROVE ChosenIsThere'
    BY <1>2 DEF Delist, Edit
<1>3. ASSUME NEW m \in Markets, Relist(m) PROVE ChosenIsThere'
    BY <1>3 DEF Relist, Edit
<1>4. ASSUME NEW m \in Markets, NameIsLost(m) PROVE ChosenIsThere'
    BY <1>4 DEF NameIsLost, Edit
<1>5. ASSUME NEW mt \in Matches, MatchEnds(mt) PROVE ChosenIsThere'
    BY <1>5 DEF MatchEnds, Edit
<1>6. ASSUME StartDiscovery PROVE ChosenIsThere'
    BY <1>6 DEF StartDiscovery, Invalidated, NoAuthority
<1>7. ASSUME NEW m \in Markets, ReadPage(m) PROVE ChosenIsThere'
    BY <1>7 DEF ReadPage, Registered
<1>8. ASSUME NEW m \in Markets, ReadMalformed(m) PROVE ChosenIsThere'
    BY <1>8 DEF ReadMalformed
<1>9. ASSUME ScanEnds PROVE ChosenIsThere'
    BY <1>9 DEF ScanEnds
<1>10. ASSUME ReconcileListings PROVE ChosenIsThere'
    BY <1>10 DEF ReconcileListings, Retired
<1>11. ASSUME ReadCatalog PROVE ChosenIsThere'
    BY <1>11 DEF ReadCatalog
<1>12. ASSUME NEW m \in Markets, MapMarket(m) PROVE ChosenIsThere'
    BY <1>12 DEF MapMarket, MappedTo
<1>13. ASSUME CheckLink PROVE ChosenIsThere'
    BY <1>13 DEF CheckLink, MappedTo
<1>14. ASSUME CommitLink PROVE ChosenIsThere'
    BY <1>14 DEF CommitLink, MappedTo
<1>15. ASSUME SaveRules PROVE ChosenIsThere'
    BY <1>15 DEF SaveRules, Authorize, Confirms, Authorizations
<1>16. ASSUME MarketFails PROVE ChosenIsThere'
    BY <1>16 DEF MarketFails
<1>17. ASSUME FinishDiscovery PROVE ChosenIsThere'
    BY <1>17 DEF FinishDiscovery, JobEnds, NoAuthority
<1>18. ASSUME JobFails PROVE ChosenIsThere'
    BY <1>18 DEF JobFails, JobEnds, NoAuthority
<1>19. ASSUME IndexExpires PROVE ChosenIsThere'
    BY <1>19 DEF IndexExpires, NoAuthority
<1>20. ASSUME Restart PROVE ChosenIsThere'
    BY <1>20 DEF Restart, JobEnds, NoAuthority
<1>21. ASSUME NEW mt \in Matches, ReadLink(mt) PROVE ChosenIsThere'
    BY <1>21, LinkedMarket DEF ReadLink
<1>22. ASSUME NEW mt \in Matches, ReadRules(mt) PROVE ChosenIsThere'
  <2>1. CASE /\ chosen[mt] \in Markets
             /\ deciding' = [deciding EXCEPT ![mt] = "act"]
             /\ UNCHANGED chosen
    BY <2>1
  <2>2. CASE DecisionEnds(mt) BY <2>2 DEF DecisionEnds
  <2> QED BY <1>22, <2>1, <2>2 DEF ReadRules
<1>23. ASSUME NEW mt \in Matches, BeginEntry(mt) PROVE ChosenIsThere'
    BY <1>23 DEF BeginEntry, DecisionEnds
<1>24. ASSUME NEW mt \in Matches, NoEntry(mt) PROVE ChosenIsThere'
    BY <1>24 DEF NoEntry, DecisionEnds
<1>25. CASE UNCHANGED vars BY <1>25 DEF vars
<1> QED BY <1>1, <1>2, <1>3, <1>4, <1>5, <1>6, <1>7, <1>8, <1>9, <1>10, <1>11, <1>12, <1>13, <1>14, <1>15, <1>16, <1>17, <1>18, <1>19, <1>20, <1>21, <1>22, <1>23, <1>24, <1>25
    DEF Next, Discover, Decide, Environment

LEMMA FirstRulesStep ==
    ASSUME TypeOK, RulesAreCurrent, ChosenIsThere, [Next]_vars,
           NEW mt \in Matches, deciding[mt] = "rules", deciding'[mt] = "act"
    PROVE  Len(rules[chosen[mt]]) = 1
<1>1. \E other \in Matches : ReadRules(other)
    BY DEF TypeOK, Next, Discover, Decide, Environment, vars, decision,
           EditRules, Delist, Relist, NameIsLost, MatchEnds, Edit,
           StartDiscovery, ReadPage, ReadMalformed, ScanEnds, ReconcileListings,
           ReadCatalog, MapMarket, CheckLink, CommitLink, SaveRules, MarketFails,
           FinishDiscovery, JobFails, IndexExpires, Restart, ReadLink,
           BeginEntry, NoEntry, DecisionEnds
<1>2. PICK other \in Matches : ReadRules(other) BY <1>1
<1>3. other = mt BY <1>2 DEF ReadRules, DecisionEnds, TypeOK
<1>4. MayAct(index[chosen[mt]])
    BY <1>2, <1>3 DEF ReadRules, DecisionEnds, TypeOK
<1> QED BY <1>4 DEF MayAct, RulesAreCurrent, ChosenIsThere

\* No decision is let through on a market whose rules have ever changed,
\* for any number of versions (RuleAuthorization.rules_changed).
THEOREM OnlyFirstRulesAct == Spec => ActsOnlyOnFirstRules
<1>1. Init => ChosenIsThere BY DEF Init, ChosenIsThere
<1>2. RulesInv /\ ChosenIsThere /\ [Next]_vars => ChosenIsThere'
    BY DiscoveryAssumption, ChosenNext DEF RulesInv
<1>3. RulesInv /\ ChosenIsThere /\ [Next]_vars
        => [\A mt \in Matches :
                deciding[mt] = "rules" /\ deciding'[mt] = "act"
                    => Len(rules[chosen[mt]]) = 1]_vars
    BY FirstRulesStep DEF RulesInv
<1> QED BY <1>1, <1>2, <1>3, RulesInvHolds, PTL DEF Spec, ActsOnlyOnFirstRules

-----------------------------------------------------------------------------
(* The book of a market                                                    *)

\* What the invariant needs of the types
BookTypeOK ==
    /\ venue \in [Book!Tokens -> Book!Books] /\ stamped \in [Book!Tokens -> Nat]
    /\ clock \in Nat /\ wire \in Seq(Book!Messages)
    /\ rest \in [Book!Tokens -> [book : Book!Books, stamp : Nat]]
    /\ books \in [Book!Tokens -> Book!Books]
    /\ stamp \in [Book!Tokens -> Nat]
    /\ hash = [t \in Book!Tokens |-> hash[t]]

\* Message i of the wire is one of token t; the first, the last of them, and two
\* that follow each other
IsOf(i, t) == i \in DOMAIN wire /\ wire[i].token = t
IsFirst(i, t) == IsOf(i, t) /\ \A k \in 1..(i - 1) : wire[k].token # t
IsLast(i, t) == IsOf(i, t) /\ \A k \in (i + 1)..Len(wire) : wire[k].token # t
AreNext(i, j, t) ==
    /\ IsOf(i, t) /\ IsOf(j, t) /\ i < j
    /\ \A k \in (i + 1)..(j - 1) : wire[k].token # t
IsQuiet(t) == \A i \in DOMAIN wire : wire[i].token # t

\* A message names every level in which its book differs from the one before,
\* and the last has the book of the venue
WholeNamesAll == \A i \in DOMAIN wire : wire[i].whole => wire[i].changed = Levels
WireFollowsVenue(t) ==
    /\ stamped[t] <= clock
    /\ \A i, j \in DOMAIN wire :
          AreNext(i, j, t) => /\ wire[i].stamp <= wire[j].stamp
                              /\ \A l \in Levels \ wire[j].changed :
                                     wire[j].book[l] = wire[i].book[l]
    /\ \A i \in DOMAIN wire :
          IsLast(i, t) => wire[i].book = venue[t] /\ wire[i].stamp <= stamped[t]
\* What the reducer has of a token, the wire goes on from
BookFollowsWire(t) ==
    /\ hot.books[t] = books[t]
    /\ hash[t] # None => hash[t] = <<books[t], stamp[t]>>
    /\ \A i \in DOMAIN wire :
          IsFirst(i, t) => /\ wire[i].whole \/ stamp[t] <= wire[i].stamp
                           /\ \A l \in Levels \ wire[i].changed :
                                  wire[i].book[l] = books[t][l]
    /\ IsQuiet(t) => books[t] = venue[t] /\ stamp[t] <= stamped[t]
BookInv ==
    /\ BookTypeOK
    /\ \A t \in Book!Tokens : stamped[t] <= clock
    /\ pc = "subscribe" =>
           /\ hash = [t \in Book!Tokens |-> None]
           /\ hot.books = books
    /\ pc = "live" =>
           /\ WholeNamesAll
           /\ \A t \in Book!Tokens : WireFollowsVenue(t)
           /\ \A t \in Book!Tokens \ doubted : BookFollowsWire(t)

LEMMA WireIndices == ASSUME BookTypeOK PROVE DOMAIN wire = 1..Len(wire) /\ Len(wire) \in Nat
BY DEF BookTypeOK

LEMMA Grown ==
    ASSUME BookTypeOK, NEW m \in Book!Messages, wire' = Append(wire, m)
    PROVE  /\ wire' \in Seq(Book!Messages)
           /\ Len(wire') = Len(wire) + 1 /\ DOMAIN wire' = 1..(Len(wire) + 1)
           /\ \A i \in 1..Len(wire) : wire'[i] = wire[i]
           /\ wire'[Len(wire) + 1] = m
BY DEF BookTypeOK

LEMMA Shrunk ==
    ASSUME BookTypeOK, wire # <<>>, wire' = Tail(wire)
    PROVE  /\ wire' \in Seq(Book!Messages)
           /\ Len(wire) >= 1 /\ Head(wire) = wire[1]
           /\ Len(wire') = Len(wire) - 1 /\ DOMAIN wire' = 1..(Len(wire) - 1)
           /\ \A i \in 1..(Len(wire) - 1) : wire'[i] = wire[i + 1]
BY DEF BookTypeOK

\* A message of another token at the end changes nothing for a token.
LEMMA OtherArrives ==
    ASSUME BookTypeOK, NEW m \in Book!Messages, wire' = Append(wire, m),
           NEW t \in Book!Tokens, m.token # t,
           venue'[t] = venue[t], stamped'[t] = stamped[t], clock \in Nat, clock' \in Nat,
           clock' >= clock, UNCHANGED <<books, hash, stamp, hot>>
    PROVE  /\ WireFollowsVenue(t) => WireFollowsVenue(t)'
           /\ BookFollowsWire(t) => BookFollowsWire(t)'
<1>1. /\ \A i : IsOf(i, t)' <=> IsOf(i, t)
      /\ \A i : IsOf(i, t) => i \in 1..Len(wire) /\ wire'[i] = wire[i]
  BY Grown, WireIndices DEF IsOf
<1>2. \A i : (IsFirst(i, t)' => IsFirst(i, t)) /\ (IsLast(i, t)' => IsLast(i, t))
  BY <1>1, Grown, WireIndices DEF IsFirst, IsLast, IsOf
<1>3. \A i, j : AreNext(i, j, t)' => AreNext(i, j, t)
  BY <1>1, Grown, WireIndices DEF AreNext, IsOf
<1>4. IsQuiet(t)' => IsQuiet(t)
  BY Grown, WireIndices DEF IsQuiet
<1>5. stamped \in [Book!Tokens -> Nat]
  BY DEF BookTypeOK
<1>6. ASSUME WireFollowsVenue(t) PROVE WireFollowsVenue(t)'
  <2>1. stamped'[t] <= clock'
    BY <1>5, <1>6 DEF WireFollowsVenue
  <2>2. ASSUME NEW i \in DOMAIN wire', NEW j \in DOMAIN wire', AreNext(i, j, t)'
        PROVE  /\ wire'[i].stamp <= wire'[j].stamp
               /\ \A l \in Levels \ wire'[j].changed : wire'[j].book[l] = wire'[i].book[l]
    <3>1. AreNext(i, j, t) /\ IsOf(i, t) /\ IsOf(j, t)
      BY <1>3, <2>2 DEF AreNext
    <3> QED BY <1>1, <1>6, <3>1 DEF WireFollowsVenue, IsOf
  <2>3. ASSUME NEW i \in DOMAIN wire', IsLast(i, t)'
        PROVE  wire'[i].book = venue'[t] /\ wire'[i].stamp <= stamped'[t]
    <3>1. IsLast(i, t) /\ IsOf(i, t)
      BY <1>2, <2>3 DEF IsLast
    <3> QED BY <1>1, <1>6, <3>1 DEF WireFollowsVenue, IsOf
  <2> QED BY <2>1, <2>2, <2>3 DEF WireFollowsVenue
<1>7. BookFollowsWire(t) => BookFollowsWire(t)'
  BY <1>1, <1>2, <1>4 DEF BookFollowsWire, IsFirst
<1> QED BY <1>6, <1>7

\* A message of a token at the end: it comes after the last, and is the venue's.
LEMMA OwnArrives ==
    ASSUME BookTypeOK, NEW m \in Book!Messages, wire' = Append(wire, m),
           NEW t \in Book!Tokens, m.token = t, clock' \in Nat, stamped'[t] \in Nat,
           stamped'[t] <= clock', stamped[t] <= stamped'[t],
           m.book = venue'[t], m.stamp <= stamped'[t],
           \A i \in DOMAIN wire : IsLast(i, t) => wire[i].stamp <= m.stamp,
           \A i \in DOMAIN wire : IsLast(i, t) =>
               \A l \in Levels \ m.changed : m.book[l] = wire[i].book[l],
           UNCHANGED <<books, hash, stamp, hot>>
    PROVE  /\ WireFollowsVenue(t) => WireFollowsVenue(t)'
           /\ /\ BookFollowsWire(t)
              /\ IsQuiet(t) => /\ m.whole \/ stamp[t] <= m.stamp
                               /\ \A l \in Levels \ m.changed : m.book[l] = books[t][l]
              => BookFollowsWire(t)'
<1>0. wire'[Len(wire) + 1] = m /\ Len(wire) + 1 \in DOMAIN wire' /\ Len(wire) \in Nat
  BY Grown, WireIndices
<1>1. /\ \A i : IsOf(i, t)' <=> (IsOf(i, t) \/ i = Len(wire) + 1)
      /\ \A i : IsOf(i, t) => i \in 1..Len(wire) /\ wire'[i] = wire[i]
  BY Grown, WireIndices DEF IsOf
<1>2. \A i : IsLast(i, t)' => i = Len(wire) + 1
  BY <1>0, <1>1, Grown, WireIndices DEF IsLast
<1>3. \A i : IsFirst(i, t)' => (IsFirst(i, t) /\ i \in DOMAIN wire)
                               \/ (i = Len(wire) + 1 /\ IsQuiet(t))
  BY <1>1, Grown, WireIndices DEF IsFirst, IsQuiet, IsOf
<1>4. \A i, j : AreNext(i, j, t)' => AreNext(i, j, t) \/ (j = Len(wire) + 1 /\ IsLast(i, t))
  <2> SUFFICES ASSUME NEW i, NEW j, AreNext(i, j, t)'
               PROVE  AreNext(i, j, t) \/ (j = Len(wire) + 1 /\ IsLast(i, t))
    OBVIOUS
  <2>1. CASE j = Len(wire) + 1
    BY <1>1, <2>1, Grown, WireIndices DEF AreNext, IsLast, IsOf
  <2>2. CASE j # Len(wire) + 1
    BY <1>1, <2>2, Grown, WireIndices DEF AreNext, IsOf
  <2> QED BY <2>1, <2>2
<1>5. ~IsQuiet(t)'
  BY <1>0 DEF IsQuiet
<1>6. ASSUME WireFollowsVenue(t) PROVE WireFollowsVenue(t)'
  <2>1. ASSUME NEW i \in DOMAIN wire', NEW j \in DOMAIN wire', AreNext(i, j, t)'
        PROVE  /\ wire'[i].stamp <= wire'[j].stamp
               /\ \A l \in Levels \ wire'[j].changed : wire'[j].book[l] = wire'[i].book[l]
    <3>1. CASE AreNext(i, j, t)
      <4>1. IsOf(i, t) /\ IsOf(j, t)
        BY <3>1 DEF AreNext
      <4> QED BY <1>1, <1>6, <3>1, <4>1 DEF WireFollowsVenue, IsOf
    <3>2. CASE j = Len(wire) + 1 /\ IsLast(i, t)
      <4>1. i \in DOMAIN wire /\ wire'[i] = wire[i] /\ wire'[j] = m
        BY <1>0, <1>1, <3>2 DEF IsLast, IsOf
      <4> QED BY <3>2, <4>1
    <3> QED BY <1>4, <2>1, <3>1, <3>2
  <2>2. ASSUME NEW i \in DOMAIN wire', IsLast(i, t)'
        PROVE  wire'[i].book = venue'[t] /\ wire'[i].stamp <= stamped'[t]
    BY <1>0, <1>2, <2>2
  <2> QED BY <2>1, <2>2 DEF WireFollowsVenue
<1>7. ASSUME BookFollowsWire(t),
             IsQuiet(t) => /\ m.whole \/ stamp[t] <= m.stamp
                           /\ \A l \in Levels \ m.changed : m.book[l] = books[t][l]
      PROVE  BookFollowsWire(t)'
  <2>1. ASSUME NEW i \in DOMAIN wire', IsFirst(i, t)'
        PROVE  /\ wire'[i].whole \/ stamp[t] <= wire'[i].stamp
               /\ \A l \in Levels \ wire'[i].changed : wire'[i].book[l] = books[t][l]
    <3>1. CASE IsFirst(i, t) /\ i \in DOMAIN wire
      <4>1. wire'[i] = wire[i]
        BY <1>1, <3>1 DEF IsFirst
      <4> QED BY <1>7, <3>1, <4>1 DEF BookFollowsWire
    <3>2. CASE i = Len(wire) + 1 /\ IsQuiet(t)
      BY <1>0, <1>7, <3>2
    <3> QED BY <1>3, <2>1, <3>1, <3>2
  <2> QED BY <1>5, <1>7, <2>1 DEF BookFollowsWire
<1> QED BY <1>6, <1>7

\* The head of the wire is taken off it.
LEMMA HeadLeaves ==
    ASSUME BookTypeOK, wire # <<>>, wire' = Tail(wire), NEW t \in Book!Tokens
    PROVE  /\ \A i : IsOf(i, t)' => IsOf(i + 1, t) /\ i + 1 \in DOMAIN wire /\ wire'[i] = wire[i + 1]
           /\ \A i : IsLast(i, t)' => IsLast(i + 1, t)
           /\ \A i, j : AreNext(i, j, t)' => AreNext(i + 1, j + 1, t)
           /\ wire[1].token # t =>
                  /\ \A i : IsFirst(i, t)' => IsFirst(i + 1, t)
                  /\ IsQuiet(t)' => IsQuiet(t)
           /\ wire[1].token = t =>
                  /\ \A i : IsFirst(i, t)' => AreNext(1, i + 1, t)
                  /\ IsFirst(1, t)
                  /\ IsQuiet(t)' => IsLast(1, t)
<1>0. Len(wire) \in Nat /\ Len(wire) >= 1 /\ DOMAIN wire = 1..Len(wire)
  BY Shrunk, WireIndices
<1>1. /\ \A i : IsOf(i, t)' => /\ i \in 1..(Len(wire) - 1) /\ IsOf(i + 1, t)
                               /\ i + 1 \in DOMAIN wire /\ wire'[i] = wire[i + 1]
      /\ \A i \in 1..(Len(wire) - 1) : wire[i + 1].token = t => IsOf(i, t)'
  BY <1>0, Shrunk DEF IsOf
<1>2. \A i : IsLast(i, t)' => IsLast(i + 1, t)
  <2> SUFFICES ASSUME NEW i, IsLast(i, t)', NEW k \in (i + 2)..Len(wire) PROVE wire[k].token # t
    BY <1>0, <1>1 DEF IsLast
  <2>1. i \in 1..(Len(wire) - 1)
    BY <1>1 DEF IsLast
  <2>2. k - 1 \in (i + 1)..Len(wire') /\ wire'[k - 1] = wire[k]
    BY <1>0, <2>1, Shrunk
  <2> QED BY <2>2 DEF IsLast
<1>3. \A i, j : AreNext(i, j, t)' => AreNext(i + 1, j + 1, t)
  <2> SUFFICES ASSUME NEW i, NEW j, AreNext(i, j, t)' PROVE AreNext(i + 1, j + 1, t)
    OBVIOUS
  <2>1. /\ i \in 1..(Len(wire) - 1) /\ j \in 1..(Len(wire) - 1) /\ i < j
        /\ IsOf(i + 1, t) /\ IsOf(j + 1, t)
    BY <1>1 DEF AreNext
  <2>2. ASSUME NEW k \in (i + 2)..j PROVE wire[k].token # t
    <3>1. k - 1 \in (i + 1)..(j - 1) /\ wire'[k - 1] = wire[k]
      BY <1>0, <2>1, Shrunk
    <3> QED BY <3>1 DEF AreNext
  <2> QED BY <1>0, <2>1, <2>2 DEF AreNext
<1>4. ASSUME wire[1].token # t
      PROVE  /\ \A i : IsFirst(i, t)' => IsFirst(i + 1, t)
             /\ IsQuiet(t)' => IsQuiet(t)
  <2>1. ASSUME NEW i, IsFirst(i, t)', NEW k \in 1..i PROVE wire[k].token # t
    <3>1. i \in 1..(Len(wire) - 1)
      BY <1>1, <2>1 DEF IsFirst
    <3>2. CASE k = 1
      BY <1>4, <3>2
    <3>3. CASE k # 1
      <4>1. k - 1 \in 1..(i - 1) /\ wire'[k - 1] = wire[k]
        BY <1>0, <3>1, <3>3, Shrunk
      <4> QED BY <2>1, <4>1 DEF IsFirst
    <3> QED BY <3>2, <3>3
  <2>2. ASSUME IsQuiet(t)', NEW k \in DOMAIN wire PROVE wire[k].token # t
    <3>1. CASE k = 1
      BY <1>4, <3>1
    <3>2. CASE k # 1
      <4>1. k - 1 \in DOMAIN wire' /\ wire'[k - 1] = wire[k]
        BY <1>0, <3>2, Shrunk
      <4> QED BY <2>2, <4>1 DEF IsQuiet
    <3> QED BY <3>1, <3>2
  <2>3. \A i : IsFirst(i, t)' => i \in 1..(Len(wire) - 1) /\ IsOf(i + 1, t)
    BY <1>1 DEF IsFirst
  <2>4. ASSUME NEW i, IsFirst(i, t)' PROVE IsFirst(i + 1, t)
    <3>1. (i + 1) - 1 = i /\ IsOf(i + 1, t)
      BY <1>0, <2>3, <2>4
    <3> QED BY <2>1, <2>4, <3>1 DEF IsFirst
  <2> QED BY <2>2, <2>4 DEF IsQuiet
<1>5. ASSUME wire[1].token = t
      PROVE  /\ \A i : IsFirst(i, t)' => AreNext(1, i + 1, t)
             /\ IsFirst(1, t)
             /\ IsQuiet(t)' => IsLast(1, t)
  <2>1. IsOf(1, t)
    BY <1>0, <1>5 DEF IsOf
  <2>2. ASSUME NEW i, IsFirst(i, t)' PROVE AreNext(1, i + 1, t)
    <3>1. i \in 1..(Len(wire) - 1) /\ IsOf(i + 1, t)
      BY <1>1, <2>2 DEF IsFirst
    <3>2. ASSUME NEW k \in 2..i PROVE wire[k].token # t
      <4>1. k - 1 \in 1..(i - 1) /\ wire'[k - 1] = wire[k]
        BY <1>0, <3>1, Shrunk
      <4> QED BY <2>2, <4>1 DEF IsFirst
    <3> QED BY <2>1, <3>1, <3>2 DEF AreNext
  <2>3. ASSUME IsQuiet(t)', NEW k \in 2..Len(wire) PROVE wire[k].token # t
    <3>1. k - 1 \in DOMAIN wire' /\ wire'[k - 1] = wire[k]
      BY <1>0, Shrunk
    <3> QED BY <2>3, <3>1 DEF IsQuiet
  <2>4. IsFirst(1, t)
    BY <2>1 DEF IsFirst
  <2>5. IsQuiet(t)' => IsLast(1, t)
    BY <2>1, <2>3 DEF IsLast
  <2> QED BY <2>2, <2>4, <2>5
<1> QED BY <1>1, <1>2, <1>3, <1>4, <1>5

LEMMA TheTokens == Book!Tokens = {1, 2}
BY DEF Book!Tokens

LEMMA GarbleStep ==
    ASSUME BookInv, NEW u \in Book!Tokens, Book!Garble(u) PROVE BookInv'
<1> DEFINE m == [Book!BookOf(u) EXCEPT !.parsed = {}]
<1>1. /\ pc = "live" /\ wire' = Append(wire, m)
      /\ UNCHANGED <<venue, stamped, clock, pc, rest, books, hash, stamp, sequence, hot, doubted>>
  BY DEF Book!Garble, Book!provider, Book!reducer
<1>2. m = [token |-> u, whole |-> TRUE, changed |-> Levels, parsed |-> {},
           book |-> venue[u], stamp |-> stamped[u]]
  <2> DEFINE b == Book!BookOf(u)
  <2>1. /\ b = [token |-> b.token, whole |-> b.whole, changed |-> b.changed,
                parsed |-> b.parsed, book |-> b.book, stamp |-> b.stamp]
        /\ b.token = u /\ b.whole = TRUE /\ b.changed = Levels
        /\ b.book = venue[u] /\ b.stamp = stamped[u]
    BY DEF Book!BookOf
  <2> HIDE DEF b
  <2>2. [b EXCEPT !.parsed = {}] =
            [token |-> b.token, whole |-> b.whole, changed |-> b.changed,
             parsed |-> {}, book |-> b.book, stamp |-> b.stamp]
    BY <2>1
  <2> QED BY <2>1, <2>2 DEF b
<1>3. m \in Book!Messages
  BY <1>2 DEF Book!Messages, BookInv, BookTypeOK
<1>4. /\ m.token = u /\ m.whole /\ m.changed = Levels /\ m.book = venue[u]
      /\ m.stamp = stamped[u]
  BY <1>2
<1> HIDE DEF m
<1>5. BookTypeOK'
  BY <1>1, <1>3, Grown DEF BookInv, BookTypeOK
<1>6. WholeNamesAll'
  BY <1>1, <1>3, <1>4, Grown, WireIndices DEF BookInv, WholeNamesAll
<1>7. ASSUME NEW t \in Book!Tokens
      PROVE  /\ WireFollowsVenue(t) => WireFollowsVenue(t)'
             /\ BookFollowsWire(t) => BookFollowsWire(t)'
  <2>1. stamped[t] \in Nat /\ clock \in Nat /\ stamped[t] <= clock
    BY DEF BookInv, BookTypeOK
  <2>2. CASE t # u
    BY <1>1, <1>3, <1>4, <2>1, <2>2, OtherArrives DEF BookInv
  <2>3. CASE t = u
    <3>1. \A i \in DOMAIN wire : IsLast(i, t) => wire[i].stamp <= m.stamp
      BY <1>1, <1>4, <2>3 DEF BookInv, WireFollowsVenue
    <3> QED BY <1>1, <1>3, <1>4, <2>1, <2>3, <3>1, OwnArrives DEF BookInv
  <2> QED BY <2>2, <2>3
<1> QED BY <1>1, <1>5, <1>6, <1>7 DEF BookInv

LEMMA RepeatStep == ASSUME BookInv, Book!Repeat PROVE BookInv'
<1> DEFINE m == wire[Len(wire)]
           u == m.token
<1>1. /\ wire # <<>> /\ wire' = Append(wire, m)
      /\ UNCHANGED <<venue, stamped, clock, pc, rest, books, hash, stamp, sequence, hot, doubted>>
  BY DEF Book!Repeat, Book!provider, Book!reducer
<1>2. m \in Book!Messages /\ u \in Book!Tokens /\ Len(wire) \in DOMAIN wire
  <2>1. wire \in Seq(Book!Messages) /\ wire # <<>>
    BY <1>1 DEF BookInv, BookTypeOK
  <2>2. Len(wire) \in DOMAIN wire
    BY <2>1
  <2>3. m \in Book!Messages
    BY <2>1, <2>2
  <2> QED BY <2>2, <2>3 DEF Book!Messages
<1>3. \A i \in DOMAIN wire : IsLast(i, u) => i = Len(wire)
  BY <1>2, WireIndices DEF IsLast, BookInv
<1>4. IsLast(Len(wire), u) /\ ~IsQuiet(u)
  BY <1>2, WireIndices DEF IsLast, IsOf, IsQuiet, BookInv
<1>5. \A i \in DOMAIN wire : IsLast(i, u) => wire[i] = m
  BY <1>3
<1>6. m.token = u /\ m.stamp \in Nat
  BY <1>2 DEF Book!Messages
<1>7. BookTypeOK'
  BY <1>1, <1>2, Grown DEF BookInv, BookTypeOK
<1>8. pc = "live" => WholeNamesAll'
  BY <1>1, <1>2, Grown, WireIndices DEF BookInv, WholeNamesAll
<1>9. pc = "live" => m.book = venue[u] /\ m.stamp <= stamped[u]
  BY <1>2, <1>4 DEF BookInv, WireFollowsVenue
<1> HIDE DEF m, u
<1>10. ASSUME pc = "live", NEW t \in Book!Tokens
       PROVE  /\ WireFollowsVenue(t) => WireFollowsVenue(t)'
              /\ BookFollowsWire(t) => BookFollowsWire(t)'
  <2>1. stamped[t] \in Nat /\ clock \in Nat /\ stamped[t] <= clock
    BY DEF BookInv, BookTypeOK
  <2>2. CASE t # u
    BY <1>1, <1>2, <1>6, <2>1, <2>2, OtherArrives DEF BookInv
  <2>3. CASE t = u
    <3>1. \A i \in DOMAIN wire : IsLast(i, t) => wire[i].stamp <= m.stamp
      BY <1>5, <1>6, <2>3
    <3>2. \A i \in DOMAIN wire : IsLast(i, t) =>
              \A l \in Levels \ m.changed : m.book[l] = wire[i].book[l]
      BY <1>5, <2>3
    <3> QED BY <1>1, <1>2, <1>4, <1>6, <1>9, <1>10, <2>1, <2>3, <3>1, <3>2, OwnArrives DEF BookInv
  <2> QED BY <2>2, <2>3
<1> QED BY <1>1, <1>7, <1>8, <1>10 DEF BookInv

LEMMA MoveStep ==
    ASSUME BookInv, NEW u \in Book!Tokens, NEW new \in Book!Books, Book!Move(u, new)
    PROVE  BookInv'
<1> DEFINE changed == {l \in Levels : new[l] # venue[u][l]}
<1>1. /\ clock' \in {clock, clock + 1}
      /\ venue' = [venue EXCEPT ![u] = new] /\ stamped' = [stamped EXCEPT ![u] = clock']
      /\ UNCHANGED <<pc, rest, books, hash, stamp, sequence, hot, doubted>>
  BY DEF Book!Move, Book!reducer
<1>2. /\ clock \in Nat /\ clock' \in Nat /\ clock <= clock'
      /\ \A t \in Book!Tokens : stamped[t] \in Nat /\ stamped[t] <= clock
  BY <1>1 DEF BookInv, BookTypeOK
<1>3. /\ venue' \in [Book!Tokens -> Book!Books] /\ stamped' \in [Book!Tokens -> Nat]
      /\ venue'[u] = new /\ stamped'[u] = clock'
      /\ \A t \in Book!Tokens : t # u => venue'[t] = venue[t] /\ stamped'[t] = stamped[t]
      /\ \A t \in Book!Tokens : stamped'[t] <= clock'
  BY <1>1, <1>2 DEF BookInv, BookTypeOK
<1>4. CASE pc # "live"
  <2>1. wire' = wire
    BY <1>4 DEF Book!Move
  <2>2. BookTypeOK'
    BY <1>1, <1>2, <1>3, <2>1 DEF BookInv, BookTypeOK
  <2> QED BY <1>1, <1>3, <1>4, <2>2 DEF BookInv
<1>5. CASE pc = "live"
  <2>1. PICK parsed \in {changed} \cup SUBSET changed :
            wire' = Append(wire, [token |-> u, whole |-> FALSE, changed |-> changed,
                                  parsed |-> parsed, book |-> new, stamp |-> clock'])
    BY <1>5 DEF Book!Move
  <2> DEFINE m == [token |-> u, whole |-> FALSE, changed |-> changed, parsed |-> parsed,
                   book |-> new, stamp |-> clock']
  <2>2. m \in Book!Messages
    BY <1>2 DEF Book!Messages
  <2>3. /\ m.token = u /\ ~m.whole /\ m.book = new /\ m.stamp = clock'
        /\ \A l \in Levels \ m.changed : m.book[l] = venue[u][l]
    OBVIOUS
  <2>4. wire' = Append(wire, m)
    BY <2>1
  <2> HIDE DEF m, changed
  <2>5. BookTypeOK'
    BY <1>1, <1>2, <1>3, <2>2, <2>4, Grown DEF BookInv, BookTypeOK
  <2>6. WholeNamesAll'
    BY <1>5, <2>2, <2>3, <2>4, Grown, WireIndices DEF BookInv, WholeNamesAll
  <2>7. ASSUME NEW t \in Book!Tokens
        PROVE  /\ WireFollowsVenue(t) => WireFollowsVenue(t)'
               /\ BookFollowsWire(t) => BookFollowsWire(t)'
    <3>1. CASE t # u
      BY <1>1, <1>2, <1>3, <2>2, <2>3, <2>4, <3>1, OtherArrives DEF BookInv
    <3>2. CASE t = u
      <4>1. \A i \in DOMAIN wire : IsLast(i, t) =>
                /\ wire[i].book = venue[t] /\ wire[i].stamp <= stamped[t]
                /\ wire[i].stamp \in Nat
        <5>1. \A i \in DOMAIN wire : wire[i] \in Book!Messages
          BY DEF BookInv, BookTypeOK
        <5>2. \A i \in DOMAIN wire : wire[i].stamp \in Nat
          BY <5>1 DEF Book!Messages
        <5> QED BY <1>5, <5>2 DEF BookInv, WireFollowsVenue
      <4>2. \A i \in DOMAIN wire : IsLast(i, t) => wire[i].stamp <= m.stamp
        BY <1>2, <2>3, <4>1
      <4>3. \A i \in DOMAIN wire : IsLast(i, t) =>
                \A l \in Levels \ m.changed : m.book[l] = wire[i].book[l]
        BY <2>3, <3>2, <4>1
      <4>4. stamp[t] \in Nat
        BY DEF BookInv, BookTypeOK
      <4>5. ASSUME BookFollowsWire(t), IsQuiet(t)
            PROVE  /\ stamp[t] <= m.stamp
                   /\ \A l \in Levels \ m.changed : m.book[l] = books[t][l]
        <5>1. books[t] = venue[t] /\ stamp[t] <= stamped[t]
          BY <4>5 DEF BookFollowsWire
        <5> QED BY <1>2, <2>3, <3>2, <4>4, <5>1
      <4> QED BY <1>1, <1>2, <1>3, <2>2, <2>3, <2>4, <3>2, <4>2, <4>3, <4>5, OwnArrives
              DEF BookInv
    <3> QED BY <3>1, <3>2
  <2> QED BY <1>1, <1>3, <1>5, <2>5, <2>6, <2>7 DEF BookInv
<1> QED BY <1>4, <1>5

LEMMA BaselineStep ==
    ASSUME BookInv, Book!Baseline
    PROVE  BookInv'
<1>1. /\ books' = [t \in Book!Tokens |-> rest[t].book]
      /\ hash' = [t \in Book!Tokens |-> None]
      /\ stamp' = [t \in Book!Tokens |-> Book!Later]
      /\ hot' = [books |-> books', sequence |-> 0] /\ pc' = "subscribe"
      /\ UNCHANGED <<venue, stamped, clock, wire, rest>>
  BY DEF Book!Baseline, Book!provider
<1>2. \A t \in Book!Tokens : rest[t].book \in Book!Books /\ rest[t].stamp \in Nat
  BY DEF BookInv, BookTypeOK
<1>3. Book!Later \in Nat
  BY <1>2, TheTokens DEF Book!Later
<1>4. BookTypeOK'
  BY <1>1, <1>2, <1>3 DEF BookInv, BookTypeOK
<1>5. hot'.books = books' /\ hash' = [t \in Book!Tokens |-> None]
  BY <1>1
<1>6. \A t \in Book!Tokens : stamped'[t] <= clock'
  BY <1>1 DEF BookInv
<1> QED BY <1>1, <1>4, <1>5, <1>6 DEF BookInv

LEMMA SubscribeStep ==
    ASSUME BookInv, Book!Subscribe
    PROVE  BookInv'
<1>1. /\ pc = "subscribe" /\ pc' = "live" /\ wire' = <<Book!BookOf(1), Book!BookOf(2)>>
      /\ UNCHANGED <<venue, stamped, clock, rest, books, hash, stamp, sequence, hot, doubted>>
  BY DEF Book!Subscribe, Book!provider, Book!reducer
<1>2. /\ DOMAIN wire' = {1, 2} /\ wire'[1] = Book!BookOf(1) /\ wire'[2] = Book!BookOf(2)
      /\ Len(wire') = 2
  BY <1>1
<1>3. \A t \in Book!Tokens :
          /\ Book!BookOf(t) \in Book!Messages
          /\ Book!BookOf(t).token = t /\ Book!BookOf(t).whole
          /\ Book!BookOf(t).changed = Levels
          /\ Book!BookOf(t).book = venue[t] /\ Book!BookOf(t).stamp = stamped[t]
  <2> TAKE t \in Book!Tokens
  <2>1. venue[t] \in Book!Books /\ stamped[t] \in Nat
    BY DEF BookInv, BookTypeOK
  <2> QED BY <2>1 DEF Book!BookOf, Book!Messages
<1>4. wire' \in Seq(Book!Messages)
  <2>1. Book!BookOf(1) \in Book!Messages /\ Book!BookOf(2) \in Book!Messages
    BY <1>3, TheTokens
  <2> QED BY <1>1, <2>1
<1>5. BookTypeOK'
  BY <1>1, <1>4 DEF BookInv, BookTypeOK
<1>6. ASSUME NEW i \in DOMAIN wire'
      PROVE  wire'[i] = Book!BookOf(i) /\ wire'[i].token = i /\ i \in Book!Tokens
  BY <1>2, <1>3, <1>6, TheTokens
<1>7. WholeNamesAll'
  BY <1>3, <1>6 DEF WholeNamesAll
<1>8. ASSUME NEW t \in Book!Tokens PROVE WireFollowsVenue(t)' /\ BookFollowsWire(t)'
  <2>1. t \in DOMAIN wire' /\ wire'[t] = Book!BookOf(t) /\ wire'[t].token = t
    BY <1>2, <1>6, TheTokens
  <2>2. \A i \in DOMAIN wire' : wire'[i].token = t => i = t
    BY <1>6
  <2>3. stamped[t] \in Nat /\ stamped[t] <= clock /\ stamped[t] <= stamped[t]
    BY DEF BookInv, BookTypeOK
  <2>4. \A i, j : ~AreNext(i, j, t)'
    BY <1>2, <2>2 DEF AreNext, IsOf
  <2>5. WireFollowsVenue(t)'
    BY <1>1, <1>3, <2>1, <2>2, <2>3, <2>4 DEF WireFollowsVenue, IsLast, IsOf
  <2>6. hot'.books[t] = books'[t] /\ hash'[t] = None
    BY <1>1 DEF BookInv
  <2>7. \A i \in DOMAIN wire' : IsFirst(i, t)' => wire'[i].whole /\ wire'[i].changed = Levels
    BY <1>3, <2>1, <2>2 DEF IsFirst, IsOf
  <2>8. ~IsQuiet(t)'
    BY <2>1 DEF IsQuiet
  <2> QED BY <2>5, <2>6, <2>7, <2>8 DEF BookFollowsWire
<1> QED BY <1>1, <1>5, <1>7, <1>8 DEF BookInv

\* A message is taken off the wire.  What was so far read of a token that is
\* not its own stays; of its own, it is taken, or was already, or is doubted.
LEMMA ApplyStep ==
    ASSUME Book!NoneIsNoHash, BookInv, Book!ApplyEvent
    PROVE  BookInv'
<1>h. PICK h : h = wire[1]
  OBVIOUS
<1>s. PICK s : s = h.token
  OBVIOUS
<1>1. /\ pc = "live" /\ wire # <<>> /\ wire' = Tail(wire) /\ Head(wire) = h
      /\ UNCHANGED <<venue, stamped, clock, pc, rest>>
      /\ Book!Reject(h) \/ Book!Ignore(h) \/ Book!Take(h)
  <2>1. wire # <<>> /\ wire' = Tail(wire) /\ BookTypeOK
    BY DEF Book!ApplyEvent, BookInv
  <2>2. Head(wire) = h
    BY <1>h, <2>1, Shrunk
  <2> QED BY <2>1, <2>2 DEF Book!ApplyEvent, Book!provider
<1>2. /\ BookTypeOK /\ WholeNamesAll
      /\ \A t \in Book!Tokens : WireFollowsVenue(t)
      /\ \A t \in Book!Tokens \ doubted : BookFollowsWire(t)
      /\ \A t \in Book!Tokens : stamped[t] <= clock
  BY <1>1 DEF BookInv
<1>3. h \in Book!Messages /\ 1 \in DOMAIN wire
  BY <1>1, <1>2, <1>h, Shrunk, WireIndices DEF BookTypeOK
<1>4. /\ s \in Book!Tokens /\ h.stamp \in Nat /\ h.book \in Book!Books
      /\ h.changed \in SUBSET Levels /\ h.whole \in BOOLEAN
      /\ h.whole => h.changed = Levels
  BY <1>2, <1>3, <1>h, <1>s DEF Book!Messages, WholeNamesAll
<1>5. WholeNamesAll'
  <2>1. \A i \in DOMAIN wire' : i + 1 \in DOMAIN wire /\ wire'[i] = wire[i + 1]
    BY <1>1, <1>2, Shrunk, WireIndices
  <2> QED BY <1>2, <2>1 DEF WholeNamesAll
<1>6. ASSUME NEW t \in Book!Tokens PROVE WireFollowsVenue(t)'
  <2>1. ASSUME NEW i \in DOMAIN wire', NEW j \in DOMAIN wire', AreNext(i, j, t)'
        PROVE  /\ wire'[i].stamp <= wire'[j].stamp
               /\ \A l \in Levels \ wire'[j].changed : wire'[j].book[l] = wire'[i].book[l]
    <3>1. AreNext(i + 1, j + 1, t) /\ IsOf(i, t)' /\ IsOf(j, t)'
      BY <1>1, <1>2, <2>1, HeadLeaves DEF AreNext
    <3>2. /\ i + 1 \in DOMAIN wire /\ wire'[i] = wire[i + 1]
          /\ j + 1 \in DOMAIN wire /\ wire'[j] = wire[j + 1]
      BY <1>1, <1>2, <3>1, HeadLeaves
    <3> QED BY <1>2, <3>1, <3>2 DEF WireFollowsVenue
  <2>2. ASSUME NEW i \in DOMAIN wire', IsLast(i, t)'
        PROVE  wire'[i].book = venue'[t] /\ wire'[i].stamp <= stamped'[t]
    <3>1. IsLast(i + 1, t) /\ IsOf(i, t)'
      BY <1>1, <1>2, <2>2, HeadLeaves DEF IsLast
    <3>2. i + 1 \in DOMAIN wire /\ wire'[i] = wire[i + 1]
      BY <1>1, <1>2, <3>1, HeadLeaves
    <3> QED BY <1>1, <1>2, <3>1, <3>2 DEF WireFollowsVenue
  <2> QED BY <1>1, <1>2, <2>1, <2>2 DEF WireFollowsVenue
<1>7. \A t \in Book!Tokens \ doubted' : t # s => t \notin doubted
  BY <1>1, <1>s DEF Book!Reject, Book!Ignore, Book!Take
<1>a. Book!Applied(h) \in Book!Books
  BY <1>2, <1>4, <1>s DEF Book!Applied, Book!Books, BookTypeOK
<1> DEFINE published == [books |-> books', sequence |-> sequence']
<1>p. published.books = books'
  OBVIOUS
<1> HIDE DEF published
<1>8. /\ books' \in [Book!Tokens -> Book!Books] /\ stamp' \in [Book!Tokens -> Nat]
      /\ hash' = [t \in Book!Tokens |-> hash'[t]]
      /\ \A t \in Book!Tokens : t # s =>
             /\ books'[t] = books[t] /\ hash'[t] = hash[t] /\ stamp'[t] = stamp[t]
             /\ hot'.books[t] = hot.books[t] \/ hot'.books[t] = books'[t]
  <2>1. CASE Book!Reject(h)
    BY <1>2, <2>1 DEF Book!Reject, Book!reducer, BookTypeOK
  <2>2. CASE Book!Ignore(h)
    BY <1>2, <1>4, <1>a, <2>2, <1>s DEF Book!Ignore, BookTypeOK
  <2>3. CASE Book!Take(h)
    <3>1. /\ books' = [books EXCEPT ![s] = Book!Applied(h)]
          /\ hash' = [hash EXCEPT ![s] = Book!HashOf(h)]
          /\ stamp' = [stamp EXCEPT ![s] = h.stamp]
          /\ hot' = hot \/ hot' = published
      BY <2>3, <1>s DEF Book!Take, published
    <3>2. hot' = hot \/ hot'.books = books'
      BY <1>p, <3>1
    <3>3. /\ books' \in [Book!Tokens -> Book!Books] /\ stamp' \in [Book!Tokens -> Nat]
          /\ hash' = [t \in Book!Tokens |-> hash'[t]]
          /\ \A t \in Book!Tokens : t # s =>
                 books'[t] = books[t] /\ hash'[t] = hash[t] /\ stamp'[t] = stamp[t]
      BY <1>2, <1>4, <1>a, <3>1 DEF BookTypeOK
    <3> QED BY <3>2, <3>3
  <2> QED BY <1>1, <2>1, <2>2, <2>3
<1>9. BookTypeOK'
  BY <1>1, <1>2, <1>8, Shrunk DEF BookTypeOK
\* Another token
<1>10. ASSUME NEW t \in Book!Tokens \ doubted', t # s PROVE BookFollowsWire(t)'
  <2>1. BookFollowsWire(t) /\ wire[1].token # t
    BY <1>2, <1>7, <1>10, <1>s, <1>h
  <2>2. /\ books'[t] = books[t] /\ hash'[t] = hash[t] /\ stamp'[t] = stamp[t]
        /\ hot'.books[t] = books'[t]
    BY <1>8, <1>10, <2>1 DEF BookFollowsWire
  <2>3. ASSUME NEW i \in DOMAIN wire', IsFirst(i, t)'
        PROVE  /\ wire'[i].whole \/ stamp[t] <= wire'[i].stamp
               /\ \A l \in Levels \ wire'[i].changed : wire'[i].book[l] = books[t][l]
    <3>1. IsFirst(i + 1, t) /\ IsOf(i, t)'
      BY <1>1, <1>2, <2>1, <2>3, HeadLeaves DEF IsFirst
    <3>2. i + 1 \in DOMAIN wire /\ wire'[i] = wire[i + 1]
      BY <1>1, <1>2, <3>1, HeadLeaves
    <3> QED BY <2>1, <3>1, <3>2 DEF BookFollowsWire
  <2>4. IsQuiet(t)' => IsQuiet(t)
    BY <1>1, <1>2, <2>1, HeadLeaves
  <2> QED BY <1>1, <2>1, <2>2, <2>3, <2>4 DEF BookFollowsWire
\* Its own, once the book is that of the message
<1>b. BookTypeOK
  BY <1>2
<1>c. wire[1] = h /\ wire[1].token = s
  BY <1>h, <1>s
<1>d. /\ \A i : IsOf(i, s)' => i + 1 \in DOMAIN wire /\ wire'[i] = wire[i + 1]
      /\ \A i : IsFirst(i, s)' => AreNext(1, i + 1, s)
      /\ IsFirst(1, s)
      /\ IsQuiet(s)' => IsLast(1, s)
  BY <1>1, <1>4, <1>b, <1>c, HeadLeaves
<1>11. ASSUME s \notin doubted', books'[s] = h.book, stamp'[s] = h.stamp,
              hot'.books[s] = books'[s], hash'[s] = <<h.book, h.stamp>>
       PROVE  BookFollowsWire(s)'
  <2>1. WireFollowsVenue(s)
    BY <1>2, <1>4
  <2>2. ASSUME NEW i \in DOMAIN wire', IsFirst(i, s)'
        PROVE  /\ wire'[i].whole \/ h.stamp <= wire'[i].stamp
               /\ \A l \in Levels \ wire'[i].changed : wire'[i].book[l] = h.book[l]
    <3>1. AreNext(1, i + 1, s) /\ IsOf(i, s)'
      BY <1>d, <2>2 DEF IsFirst
    <3>2. i + 1 \in DOMAIN wire /\ wire'[i] = wire[i + 1]
      BY <1>d, <3>1
    <3> QED BY <1>3, <1>c, <2>1, <3>1, <3>2 DEF WireFollowsVenue
  <2>3. IsQuiet(s)' => h.book = venue[s] /\ h.stamp <= stamped[s]
    BY <1>3, <1>c, <1>d, <2>1 DEF WireFollowsVenue
  <2>4. UNCHANGED <<venue, stamped>>
    BY <1>1
  <2> QED BY <1>11, <2>2, <2>3, <2>4 DEF BookFollowsWire
<1>e. ASSUME s \notin doubted' => BookFollowsWire(s)' PROVE BookInv'
  <2>1. \A t \in Book!Tokens \ doubted' : BookFollowsWire(t)'
    BY <1>10, <1>e
  <2>2. pc' = "live" /\ \A t \in Book!Tokens : stamped'[t] <= clock'
    BY <1>1, <1>2
  <2> QED BY <1>5, <1>6, <1>9, <2>1, <2>2 DEF BookInv
<1>12. CASE Book!Reject(h) /\ Book!Duplicate(h)
  <2>1. UNCHANGED <<books, hash, stamp, hot, doubted>> /\ hash[s] = <<h.book, h.stamp>>
    BY <1>12, <1>s DEF Book!Reject, Book!Duplicate, Book!reducer, Book!HashOf
  <2>2. hash[s] # None
    BY <1>4, <2>1 DEF Book!NoneIsNoHash
  <2>3. ASSUME s \notin doubted' PROVE BookFollowsWire(s)'
    <3>1. BookFollowsWire(s)
      BY <1>2, <1>4, <2>1, <2>3
    <3>2. books[s] = h.book /\ stamp[s] = h.stamp /\ hot.books[s] = books[s]
      BY <2>1, <2>2, <3>1 DEF BookFollowsWire
    <3> QED BY <1>11, <2>1, <2>3, <3>2
  <2> QED BY <1>e, <2>3
<1>13. CASE Book!Reject(h) /\ ~Book!Duplicate(h)
  <2>1. /\ UNCHANGED <<books, hash, stamp, hot>> /\ h.stamp < stamp[s]
        /\ h.whole => s \in doubted'
        /\ ~h.whole => doubted' = doubted
    BY <1>13, <1>s DEF Book!Reject, Book!Rejects, Book!Stale, Book!reducer
  <2>2. s \in doubted'
    <3> SUFFICES ASSUME ~h.whole, s \notin doubted PROVE FALSE
      BY <2>1
    <3>1. BookFollowsWire(s)
      BY <1>2, <1>4
    <3>3. stamp[s] <= h.stamp
      BY <1>3, <1>c, <1>d, <3>1 DEF BookFollowsWire
    <3>4. stamp[s] \in Nat
      BY <1>2, <1>4 DEF BookTypeOK
    <3> QED BY <1>4, <2>1, <3>3, <3>4
  <2> QED BY <1>e, <2>2
<1>14. CASE Book!Ignore(h)
  <2>1. s \in doubted'
    BY <1>14, <1>s DEF Book!Ignore
  <2> QED BY <1>e, <2>1
<1>15. CASE Book!Take(h)
  <2>1. /\ h.parsed = h.changed
        /\ books' = [books EXCEPT ![s] = Book!Applied(h)]
        /\ hash' = [hash EXCEPT ![s] = <<h.book, h.stamp>>]
        /\ stamp' = [stamp EXCEPT ![s] = h.stamp]
        /\ doubted' = IF h.whole THEN doubted \ {s} ELSE doubted
        /\ (h.whole \/ books' # books) => hot' = published
        /\ ~(h.whole \/ books' # books) => hot' = hot
    BY <1>15, <1>s DEF Book!Take, Book!Malformed, Book!HashOf, published
  <2>2. (h.whole \/ books' # books) => hot'.books = books'
    BY <1>p, <2>1
  <2>3. /\ books'[s] = Book!Applied(h) /\ stamp'[s] = h.stamp
        /\ hash'[s] = <<h.book, h.stamp>>
    BY <1>2, <1>4, <2>1 DEF BookTypeOK
  <2>4. ASSUME s \notin doubted' PROVE BookFollowsWire(s)'
    <3>1. ~h.whole => BookFollowsWire(s)
      BY <1>2, <1>4, <2>1, <2>4
    <3>2. \A l \in Levels \ h.changed : h.book[l] = books[s][l]
      <4>1. CASE h.whole
        BY <1>4, <4>1
      <4>2. CASE ~h.whole
        BY <1>3, <1>c, <1>d, <3>1, <4>2 DEF BookFollowsWire
      <4> QED BY <4>1, <4>2
    <3>3. Book!Applied(h) = h.book
      BY <1>4, <2>1, <3>2, <1>s DEF Book!Applied, Book!Books
    <3>4. hot'.books[s] = books'[s]
      BY <2>1, <2>2, <3>1 DEF BookFollowsWire
    <3> QED BY <1>11, <2>3, <2>4, <3>3, <3>4
  <2> QED BY <1>e, <2>4
<1> QED BY <1>1, <1>12, <1>13, <1>14, <1>15

LEMMA BookStep ==
    ASSUME Book!NoneIsNoHash, BookInv, [Book!Next]_(Book!vars)
    PROVE  BookInv'
<1>1. CASE UNCHANGED Book!vars
  <2>1. UNCHANGED <<venue, stamped, clock, wire, pc, rest, books, hash, stamp, hot, doubted>>
    BY <1>1 DEF Book!vars, Book!provider, Book!reducer
  <2>2. BookTypeOK' /\ (WholeNamesAll => WholeNamesAll')
    BY <2>1 DEF BookInv, BookTypeOK, WholeNamesAll
  <2>3. ASSUME NEW t \in Book!Tokens
        PROVE  /\ WireFollowsVenue(t) => WireFollowsVenue(t)'
               /\ BookFollowsWire(t) => BookFollowsWire(t)'
    BY <2>1 DEF WireFollowsVenue, BookFollowsWire, IsFirst, IsLast, AreNext, IsQuiet, IsOf
  <2> QED BY <2>1, <2>2, <2>3 DEF BookInv
<1>2. CASE Book!Reconcile \/ Book!RestFails
  BY <1>2 DEF BookInv, BookTypeOK, Book!Reconcile, Book!RestFails, Book!provider, Book!reducer
<1>3. ASSUME NEW t \in Book!Tokens, NEW here, NEW after,
             after \in {"second", "publish"}, Book!ReadToken(t, here, after)
      PROVE  BookInv'
  <2>1. /\ rest' = [rest EXCEPT ![t] = [book |-> venue[t], stamp |-> stamped[t]]]
        /\ pc' = after
        /\ UNCHANGED <<venue, stamped, clock, wire, books, hash, stamp, hot, doubted>>
    BY <1>3 DEF Book!ReadToken, Book!provider, Book!reducer
  <2>2. [book |-> venue[t], stamp |-> stamped[t]] \in [book : Book!Books, stamp : Nat]
    BY DEF BookInv, BookTypeOK
  <2>3. BookTypeOK'
    BY <2>1, <2>2 DEF BookInv, BookTypeOK
  <2> QED BY <1>3, <2>1, <2>3 DEF BookInv
<1> QED BY <1>1, <1>2, <1>3, GarbleStep, MoveStep, RepeatStep, BaselineStep, SubscribeStep,
           ApplyStep, TheTokens DEF Book!Next

everything == <<scope, vars, book, quotes>>

\* For every set of levels, number of changes at the venue and number of faults:
\* with nothing of a token on the wire, the hot book that MarketBookReducer
\* publishes is the venue's, unless a book of the token was refused as stale or
\* a malformed message was ignored (apply_event, markets/reducer.py).
THEOREM HotBookIsTheVenues ==
    ASSUME Book!NoneIsNoHash
    PROVE  /\ Book!Spec => []Book!HotIsTheVenues
           /\ MCSpec => []HotIsTheVenues
<1>1. Book!Init => BookInv
  <2> SUFFICES ASSUME Book!Init PROVE BookInv
    OBVIOUS
  <2>1. Book!Empty \in Book!Books
    BY DEF Book!Empty, Book!Books, Book!Sizes
  <2>2. BookTypeOK
    BY <2>1 DEF Book!Init, BookTypeOK
  <2> QED BY <2>2 DEF Book!Init, BookInv
<1>2. BookInv /\ [Book!Next]_(Book!vars) => BookInv'
  BY BookStep
<1>3. BookInv => Book!HotIsTheVenues
  BY DEF BookInv, BookFollowsWire, IsQuiet, Book!HotIsTheVenues
<1>4. Book!Spec => []Book!HotIsTheVenues
  BY <1>1, <1>2, <1>3, PTL DEF Book!Spec
<1>5. MCInit => (scope = "book" => BookInv)
  BY <1>1 DEF MCInit
<1>6. (scope = "book" => BookInv) /\ [MCNext]_everything => (scope = "book" => BookInv)'
  <2>1. UNCHANGED book => UNCHANGED Book!vars
    BY DEF book, Book!vars, Book!provider, Book!reducer
  <2> QED BY <1>2, <2>1 DEF MCNext, everything
<1>7. (scope = "book" => BookInv) => HotIsTheVenues
  BY <1>3 DEF HotIsTheVenues
<1>8. MCSpec => []HotIsTheVenues
  BY <1>5, <1>6, <1>7, PTL DEF MCSpec, everything
<1> QED BY <1>4, <1>8

=============================================================================
