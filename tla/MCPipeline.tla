------------------------------ MODULE MCPipeline ------------------------------
\* Small instances of EventPipeline for TLC.
EXTENDS EventPipeline, TLC

CONSTANTS e1, r1, r2, w1, x1, x2

OneEvent == {e1}
OneRequest == {r1}
TwoRequests == {r1, r2}
OneWorker == {w1}
OneRelay == {x1}
TwoRelays == {x1, x2}

\* A queue that works, its worker dying or its handler failing; a queue that
\* fails or is missing; an event of a type nobody handles; one whose handler
\* leaves it alone.
Dying == {"workerDies"}
Failing == {"handlerFails"}
Degraded == {"requestDies", "redisFails", "inline", "handlerFails"}
Unknown == {"noHandler"}
NotOurs == {"notOurs", "workerDies", "inline"}

Everything == {Dying, Failing, Degraded, Unknown, NotOurs}
NoQueue == {{"inline", "handlerFails"}}
===============================================================================
