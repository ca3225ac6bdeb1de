------------------------------- MODULE Caches -------------------------------
(***************************************************************************)
(* The two caches of the gateway side by side: the agents' configurations  *)
(* (SessionInit) and the available streams (WorkerRouter).  They have      *)
(* nothing in common but the clock, the lifetimes and the calls that fail. *)
(***************************************************************************)
EXTENDS SessionInit

CONSTANTS
  Routes,      \* the router's requests
  Streams, RegionOf, Known, Places, Nowhere, Apart, Km, Allowed, None,
  RouteTime    \* bound: the clock of the router's part

VARIABLES registered, full, cache, fetchedAt, lock, routeStage, routeStart,
          client, allowed, members, chosen, lastSeen, lastRoom, lastBad

Router == INSTANCE WorkerRouter WITH
            Requests <- Routes, MaxTime <- RouteTime, stage <- routeStage, startedAt <- routeStart

ASSUME RoutesAssumption == Router!RouterAssumption

routeVars == <<registered, full, cache, fetchedAt, lock, routeStage, routeStart,
               client, allowed, members, chosen, lastSeen, lastRoom, lastBad>>
initVars == <<dbVars, cacheVars, stage, startedAt, config, signedAt>>

\* See WorkerRouter: decisions rest on replies of bounded age
\* (worker_router.py:168-182).
DecisionIsRecent == Router!DecisionIsRecent

\* See WorkerRouter: a nearest stream of an allowed region, or "global"
\* (worker_router.py:275-305).
RoutedWithinRegions == Router!RoutedWithinRegions
=============================================================================
