------------------------------ MODULE MCEngine ------------------------------
(***************************************************************************)
(* Prices around 400, where one unit is the default info threshold of      *)
(* 0.25 %, two the watch threshold, four the high and eight the critical   *)
(* one; a wrapper in another currency and one without a usable price.      *)
(* Apart from these, one stock is evaluated day after day at ten o'clock.  *)
(***************************************************************************)
EXTENDS Evidence, Calendar

Wrapper(price) ==
  [price |-> price, currency |-> "USD", source |-> FALSE,
   volume |-> CASE price = 392 -> 10 [] price = 393 -> 30 [] OTHER -> 0]

AllTokens ==
  {Wrapper(p) : p \in {0, 392, 393, 401, 404}}
    \cup {[price |-> 400, currency |-> "EUR", source |-> TRUE, volume |-> 100]}

AllReferences ==
  {NoReference, [price |-> 0, currency |-> "USD", age |-> 0],
   [price |-> 400, currency |-> "EUR", age |-> 0],
   [price |-> 402, currency |-> "USD", age |-> 1]}
    \cup [price : {400}, currency : {"USD"}, age : {-1, 1, 2, 3}]

DefaultThresholds == [info |-> 25, watch |-> 50, high |-> 100, critical |-> 200]

OneVenue == <<-1>>

\* 1 January 2021 was a Friday; the seven years hold every way a holiday
\* meets a weekend, and Easter in March and in April.
StartOf2021 == [year |-> 2021, month |-> 1, day |-> 1, weekday |-> 5]

OneStock == [reference |-> [price |-> 400, currency |-> "USD", age |-> 1],
             tokens |-> <<Wrapper(404)>>, market |-> "closed",
             pairs |-> "unknown", confirmations |-> 1]

MCInit == Init /\ today = FirstDay

InputsChange == today = FirstDay /\ Next /\ UNCHANGED today

NextMorning ==
  /\ today = FirstDay => reading = OneStock
  /\ DayPasses
  /\ Scan([reading EXCEPT !.market = UnderlyingMarketState("stock", TRUE, today', 600)])

MCNext == InputsChange \/ NextMorning

MCSpec == MCInit /\ [][MCNext]_<<vars, today>>
=============================================================================
