-------------------------- MODULE MCAutomaticPayouts --------------------------
\* Small instances of AutomaticPayouts for TLC.
EXTENDS AutomaticPayouts, TLC

CONSTANTS t1, t2, s1, w1, w2, admin, p1, p2

TwoTabs == {t1, t2}
OneTab == {t1}
OneSale == {s1}
OneWorker == {w1}
TwoWorkers == {w1, w2}
OnePass == {p1}
TwoPasses == {p1, p2}

\* Onboarding alone; the jobs with everything that goes wrong around them; the
\* jobs left to themselves with a reconciliation; the reconciliation alone.
Onboarding == {"connect"}
Disturbed == {"jobs", "issues", "flips", "restarts", "force", "dies"}
Calm == {"jobs", "force", "dies", "passes"}
Bookkeeping == {"books", "passes", "notes", "dies"}
Books == {Balance, "LEDGER_OUT_OF_BALANCE"}

AllScenarios == {Onboarding, Disturbed, Calm, Bookkeeping}
Joined == {{"connect", "jobs"}}
Forced == {{"jobs", "force"}}
===============================================================================
