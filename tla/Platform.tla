------------------------------- MODULE Platform -------------------------------
(***************************************************************************)
(* The parts of the server that share no state with each other, side by    *)
(* side: the script of the seeds, the INSERTs of the handlers, the rows    *)
(* their updates meet, the route tables, the response cache and the rate   *)
(* limit.  A behaviour is one of one part, chosen at its start: whatever   *)
(* the other parts do makes no difference to it.                           *)
(***************************************************************************)
EXTENDS Seeding, Inserts, Marketplace, Routes, ResponseCache, RateLimit

VARIABLE part

Parts == {"seeds", "inserts", "rows", "routes", "cache", "limit"}

vars == <<part, seedVars, insertVars, rowVars, request, cacheVars, limitVars>>

\* The other parts are in their initial states.
PlatformTypeOK ==
  CASE part = "seeds" -> SeedTypeOK
    [] part = "inserts" -> InsertsTypeOK
    [] part = "rows" -> MarketplaceTypeOK
    [] part = "routes" -> RoutesTypeOK
    [] part = "cache" -> CacheTypeOK
    [] part = "limit" -> LimitTypeOK

Init ==
  /\ part \in Parts
  /\ SeedInit
  /\ InsertsInit
  /\ MarketplaceInit
  /\ part # "rows" => table = "services"
  /\ RoutesInit
  /\ CacheInit
  /\ LimitInit

RunPart(p) ==
  /\ part = p
  /\ UNCHANGED part
  /\ IF p = "seeds" THEN SeedNext ELSE UNCHANGED seedVars
  /\ IF p = "inserts" THEN InsertsNext ELSE UNCHANGED insertVars
  /\ IF p = "rows" THEN MarketplaceNext ELSE UNCHANGED rowVars
  /\ IF p = "routes" THEN RoutesNext ELSE UNCHANGED request
  /\ IF p = "cache" THEN CacheNext ELSE UNCHANGED cacheVars
  /\ IF p = "limit" THEN LimitNext ELSE UNCHANGED limitVars

Next == \E p \in Parts : RunPart(p)

\* A script that is running goes on until it ends or is killed.
SeedsProceed ==
  /\ part = "seeds" /\ RunSeeds
  /\ UNCHANGED <<part, insertVars, rowVars, request, cacheVars, limitVars>>

Spec == Init /\ [][Next]_vars /\ WF_vars(SeedsProceed)
=============================================================================
