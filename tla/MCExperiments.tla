---------------------------- MODULE MCExperiments ----------------------------
(* Instances of ExperimentRunner for TLC: a scenario names a     *)
(* dataset, a policy, the modes in use and how often each fault may happen.  *)
EXTENDS ExperimentAggregation

CONSTANTS q1, q2, x, y

Turn1  == [id |-> "turn1", question |-> q1, group |-> "g"]
Turn2  == [id |-> "turn2", question |-> q2, group |-> "g"]
Single == [id |-> "single", question |-> q1, group |-> NoGroup]
Other  == [id |-> "other", question |-> q2, group |-> NoGroup]

NoBudget == [launches |-> 1, resumes |-> 0, replays |-> 0, stops |-> 0, failures |-> 0,
             crashes |-> 0, damages |-> 0, upgrades |-> 0,
             aggregates |-> 0, aggCrashes |-> 0]

\* A session: the process dies and a provider fails.
SessionScenario ==
    [dataset |-> <<Turn1, Turn2>>, generate |-> TRUE, judged |-> FALSE,
     external |-> TRUE, concurrency |-> 2, serial |-> TRUE,
     modes |-> {"fresh"}, resumeModes |-> {"fresh", "cache"}, stopAfter |-> {0},
     budget |-> [NoBudget EXCEPT !.resumes = 2, !.crashes = 2, !.failures = 2]]

\* Two threads ask the same question for one permit; a provider fails and a
\* stop is asked for.
StopScenario ==
    [SessionScenario EXCEPT
        !.dataset = <<Turn1, Single>>,
        !.resumeModes = {"cache"},
        !.budget = [NoBudget EXCEPT !.resumes = 1, !.stops = 1, !.failures = 1]]

\* A source experiment and its replay, with a damaged file or a new checkout.
ReplayScenario ==
    [dataset |-> <<Turn1, Single>>, generate |-> TRUE, judged |-> TRUE,
     external |-> TRUE, concurrency |-> 1, serial |-> TRUE,
     modes |-> {"fresh"}, resumeModes |-> {"replay"}, stopAfter |-> {1},
     budget |-> [NoBudget EXCEPT !.resumes = 1, !.replays = 1, !.damages = 1]]

\* Two runs share the cache, without generation.
RetrievalScenario ==
    [dataset |-> <<Single, Other>>, generate |-> FALSE, judged |-> FALSE,
     external |-> FALSE, concurrency |-> 1, serial |-> FALSE,
     modes |-> {"fresh", "cache"}, resumeModes |-> {"cache"}, stopAfter |-> {0},
     budget |-> [NoBudget EXCEPT !.launches = 2, !.upgrades = 1]]

\* Aggregations while the runner works on one case and fails once.
LiveScenario ==
    [RetrievalScenario EXCEPT
        !.dataset = <<Single>>,
        !.generate = TRUE, !.external = TRUE, !.modes = {"fresh"},
        !.budget = [NoBudget EXCEPT !.failures = 2, !.crashes = 1, !.resumes = 1,
                                    !.aggregates = 1]]

\* Aggregations of a session of which a file is damaged, and a crash.
DamagedScenario ==
    [SessionScenario EXCEPT
        !.budget = [NoBudget EXCEPT !.damages = 1, !.aggregates = 2, !.aggCrashes = 1]]

\* The lifecycle calls: stopped, resumed and replayed without a provider.
LifecycleScenario ==
    [RetrievalScenario EXCEPT
        !.serial = TRUE, !.modes = {"fresh"}, !.stopAfter = {0, 1},
        !.budget = [NoBudget EXCEPT !.resumes = 1, !.replays = 1, !.crashes = 1]]

\* Generation where nobody may be called, and a replay the lifecycle refuses.
ForbiddenScenario ==
    [LifecycleScenario EXCEPT !.dataset = <<Single>>, !.generate = TRUE]

MCScenarios == {SessionScenario, StopScenario, ReplayScenario, RetrievalScenario,
                LiveScenario, DamagedScenario, LifecycleScenario, ForbiddenScenario}
=============================================================================
