----------------------------- MODULE ShippingRates -----------------------------
(***************************************************************************)
(* The table of country shipping rates: its seeding by whoever prices      *)
(* first, what a destination costs, and the administrators' changes.       *)
(*                                                                         *)
(* The seeding counts the rows and then inserts the defaults one by one,   *)
(* in no transaction; the code of a country is unique, and an insert that  *)
(* fails ends the seeding without a word.                                  *)
(***************************************************************************)
EXTENDS Integers, Sequences, FiniteSets

CONSTANTS
  Callers,     \* requests that price or list, each after seeding
  MaxEdits,    \* bound: changes by administrators
  MaxCrashes   \* bound: requests that die while they seed

VARIABLES
  rates,       \* the rows, by country
  seeding,     \* the default each caller is about to insert, 0 for none
  edits,       \* changes so far
  crashes      \* requests lost so far

rateVars == <<rates, seeding, edits, crashes>>

\* INITIAL_DEFAULT_RATES: one country of each zone and one more, in the order
\* in which they are inserted.
DefaultRates == <<
  [country |-> "AE", zone |-> "DOMESTIC", rate |-> 25],
  [country |-> "SA", zone |-> "GCC", rate |-> 80],
  [country |-> "KW", zone |-> "GCC", rate |-> 75],
  [country |-> "GB", zone |-> "WORLDWIDE", rate |-> 250]>>

Defaults == {DefaultRates[i].country : i \in DOMAIN DefaultRates}
Gcc == {"SA", "KW"}
Countries == Defaults \cup {"FR"}     \* FR: a country without a default

NoRate == [zone |-> "none", rate |-> 0, active |-> FALSE]
Rate(z, r) == [zone |-> z, rate |-> r, active |-> TRUE]

Listed == {c \in Countries : rates[c] # NoRate}
Active(z) == {c \in Listed : rates[c].active /\ rates[c].zone = z}

\* A fresh table, and one that was seeded long ago.
NoRates == [c \in Countries |-> NoRate]
SeededRates == [c \in Countries |->
  IF c \in Defaults
  THEN LET d == CHOOSE d \in {DefaultRates[i] : i \in DOMAIN DefaultRates} : d.country = c
       IN Rate(d.zone, d.rate)
  ELSE NoRate]

RatesInit ==
  /\ rates \in {NoRates, SeededRates}
  /\ seeding = [x \in Callers |-> 0]
  /\ edits = 0
  /\ crashes = 0
-------------------------------------------------------------------------------
(***************************************************************************)
(* ensureDefaultRatesSeeded.                                               *)
(***************************************************************************)
\* What happens to the caller afterwards is the caller's: Then.
CountRates(x, Then) ==
  /\ seeding[x] = 0
  /\ IF Listed = {} THEN seeding' = [seeding EXCEPT ![x] = 1] ELSE UNCHANGED seeding
  /\ Then
  /\ UNCHANGED <<rates, edits, crashes>>

\* *Mutant*: the rows are counted again before every insert.
GoesOnWhileEmpty(i) == Listed = {} /\ i < Len(DefaultRates)

GoesOn(i) == i < Len(DefaultRates)

SeedOne(x) ==
  LET i == seeding[x]
      d == DefaultRates[i]
      fresh == rates[d.country] = NoRate
  IN /\ i > 0
     /\ rates' = IF fresh THEN [rates EXCEPT ![d.country] = Rate(d.zone, d.rate)] ELSE rates
     /\ seeding' = [seeding EXCEPT ![x] = IF fresh /\ GoesOn(i) THEN i + 1 ELSE 0]
     /\ UNCHANGED <<edits, crashes>>

SeederDies(x, Then) ==
  /\ seeding[x] > 0
  /\ crashes < MaxCrashes
  /\ crashes' = crashes + 1
  /\ seeding' = [seeding EXCEPT ![x] = 0]
  /\ Then
  /\ UNCHANGED <<rates, edits>>
-------------------------------------------------------------------------------
(***************************************************************************)
(* What a destination costs.                                               *)
(***************************************************************************)
\* validateShippingCoverage.
Covered(coverage, c) ==
  CASE coverage = "UAE_ONLY" -> c = "AE"
    [] coverage = "GCC" -> c \in Gcc \cup {"AE"}
    [] OTHER -> TRUE

FallbackZone(c) == IF c \in Gcc THEN "GCC" ELSE "WORLDWIDE"

\* calculateShippingRate: nothing when the seller pays; the country's rate; any
\* of its zone, the database chooses which; a constant; or no rate at all.
CostsTo(c, payer) ==
  CASE payer = "SELLER" -> {0}
    [] payer # "SELLER" /\ rates[c].active -> {rates[c].rate}
    [] payer # "SELLER" /\ ~ rates[c].active /\ c = "AE" -> {25}
    [] OTHER -> LET zone == {rates[d].rate : d \in Active(FallbackZone(c))}
                IN IF zone # {} THEN zone ELSE IF c \in Gcc THEN {80} ELSE {}
-------------------------------------------------------------------------------
(***************************************************************************)
(* createShippingRate, updateShippingRate, toggleShippingRateStatus and    *)
(* deleteShippingRate.                                                     *)
(***************************************************************************)
Edit(c, to) ==
  /\ edits < MaxEdits
  /\ edits' = edits + 1
  /\ rates' = [rates EXCEPT ![c] = to]
  /\ UNCHANGED <<seeding, crashes>>

CreateRate(c) == rates[c] = NoRate /\ Edit(c, Rate(FallbackZone(c), 90))
UpdateRate(c) == rates[c] # NoRate /\ Edit(c, [rates[c] EXCEPT !.rate = 90])
ToggleRate(c) == rates[c] # NoRate /\ Edit(c, [rates[c] EXCEPT !.active = ~ @])
DeleteRate(c) == rates[c] # NoRate /\ Edit(c, NoRate)
===============================================================================
