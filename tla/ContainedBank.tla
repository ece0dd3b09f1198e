---- MODULE ContainedBank ----
(***************************************************************************)
(* CGenericsProposal/ContainedBank.lf: A sends a random number a second on *)
(* a bank of ports, B hands each one that is present to the Wire in it,    *)
(* which converts it after a latency and sends it on a bank of its own.    *)
(* A and the Wire choose the port by a counter that they increment in the  *)
(* argument of lf_set, a macro that evaluates this argument three times.   *)
(* A random number is the number of its draw; 0 is what calloc left.       *)
(***************************************************************************)
EXTENDS Integers, FiniteSets

CONSTANT Parameters   \* width of the banks, period of the timer, post, latency

ASSUME ParametersAssumption ==
  \A p \in Parameters : {p.width, p.period, p.post, p.latency} \subseteq Nat \ {0}

VARIABLES
  self,        \* the parameters of this program
  time,        \* the logical time; all delays are positive, so it is the tag
  firing,      \* the time of the timer's next firing
  events,      \* the event queue: post (value 0), delayed_trigger with a value
  present,     \* the actions that are present, with their values, and the timer
  Aout, w_in, w_out,   \* the banks: present channels, value of each channel
  drawn,       \* how many numbers A has drawn
  counter,     \* of A
  counter_out, \* of the Wire
  req_id,      \* of B: how many values it printed
  printed,     \* the value B printed last
  overrun      \* who used a port beyond its bank: the program is undefined then

vars == <<self, time, firing, events, present, Aout, w_in, w_out, drawn,
          counter, counter_out, req_id, printed, overrun>>

Unset(p) == [present |-> {}, value |-> [i \in 0 .. p.width - 1 |-> 0]]

Quiet == [t |-> {}, post |-> {}, delayed_trigger |-> {}]

\* convert__int_to__float divides by 223.23: [float |-> v] stands for that float,
\* which is 0 for 0 only.
DO_CONVERT(v) == [float |-> v]

Init ==
  /\ self \in Parameters
  /\ time = 0 /\ firing = self.period
  /\ events = {} /\ present = [Quiet EXCEPT !.t = {0}]
  /\ Aout = Unset(self) /\ w_in = Unset(self)
  /\ w_out = [Unset(self) EXCEPT !.value = [i \in DOMAIN @ |-> DO_CONVERT(0)]]
  /\ drawn = 0 /\ counter = 0 /\ counter_out = 0
  /\ req_id = 0 /\ printed = {} /\ overrun = {}

\* The reactions by what triggers them, in the order of their levels.
Waiting == <<present.t, present.post, Aout.present, w_in.present,
             present.delayed_trigger, w_out.present>>
Turn(n) ==
  /\ overrun = {} /\ Waiting[n] # {}
  /\ \A m \in 1 .. n - 1 : Waiting[m] = {}

\* lf_set(out[c++], v): the value goes to one port, the next one is marked as
\* present, the token of a third is looked at (NULL, as of any int or float).
\* The mutant is out[++c].
EvaluatesPre == [value |-> 1, is_present |-> 2, token |-> 3, all |-> 3]
Evaluates == [value |-> 0, is_present |-> 1, token |-> 2, all |-> 3]

InBank(c) == c + Evaluates.token < self.width

lf_set(out, c, v) ==
  [present |-> out.present \cup {c + Evaluates.is_present},
   value |-> [out.value EXCEPT ![c + Evaluates.value] = v]]

\* reaction (t) of A, with the timer's period.
A_t ==
  /\ Turn(1)
  /\ events' = events \cup {[action |-> "post", time |-> time + self.post, value |-> 0]}
  /\ present' = [present EXCEPT !.t = {}]
  /\ UNCHANGED <<self, time, firing, Aout, w_in, w_out, drawn, counter,
                 counter_out, req_id, printed, overrun>>

\* reaction (post) of A.  The counter is never reset.
A_post ==
  /\ Turn(2)
  /\ IF InBank(counter)
     THEN /\ Aout' = lf_set(Aout, counter, drawn + 1)
          /\ UNCHANGED overrun
     ELSE overrun' = {"A"} /\ UNCHANGED Aout
  /\ drawn' = drawn + 1
  /\ counter' = counter + Evaluates.all
  /\ present' = [present EXCEPT !.post = {}]
  /\ UNCHANGED <<self, time, firing, events, w_in, w_out, counter_out, req_id, printed>>

\* Bin is a bank of floats connected to a bank of ints: B reads the bits of a
\* number as those of a float, which lf_set makes an int again.  0 stays 0; what
\* another number becomes is not computed, its negative stands for it.
Reread(v) == 0 - v

\* reaction (Bin) of B: lf_set(w.in[i], ...) names one port.
B_Bin ==
  /\ Turn(3)
  /\ w_in' = [present |-> Aout.present,
              value |-> [i \in DOMAIN w_in.value |->
                           IF i \in Aout.present THEN Reread(Aout.value[i]) ELSE w_in.value[i]]]
  /\ Aout' = [Aout EXCEPT !.present = {}]
  /\ UNCHANGED <<self, time, firing, events, present, w_out, drawn, counter,
                 counter_out, req_id, printed, overrun>>

\* reaction (in) of the Wire.  At most one channel is present at a time.
Wire_in ==
  /\ Turn(4)
  /\ events' = events \cup
       {[action |-> "delayed_trigger", time |-> time + self.latency,
         value |-> w_in.value[i]] : i \in w_in.present}
  /\ w_in' = [w_in EXCEPT !.present = {}]
  /\ UNCHANGED <<self, time, firing, present, Aout, w_out, drawn, counter,
                 counter_out, req_id, printed, overrun>>

\* counter_out at the end of the reaction; the mutant swaps the branches.
WrappedInside(c) == IF c >= self.width THEN c ELSE 0
Wrapped(c) == IF c >= self.width THEN 0 ELSE c

\* reaction (delayed_trigger) of the Wire: int and float are not the same type.
Wire_delayed_trigger ==
  /\ Turn(5)
  /\ \E v \in present.delayed_trigger :
       IF InBank(counter_out)
       THEN /\ w_out' = lf_set(w_out, counter_out, DO_CONVERT(v))
            /\ UNCHANGED overrun
       ELSE overrun' = {"Wire"} /\ UNCHANGED w_out
  /\ counter_out' = Wrapped(counter_out + Evaluates.all)
  /\ present' = [present EXCEPT !.delayed_trigger = {}]
  /\ UNCHANGED <<self, time, firing, events, Aout, w_in, drawn, counter, req_id, printed>>

\* reaction (w.out) of B.
B_w_out ==
  /\ Turn(6)
  /\ printed' = {w_out.value[i] : i \in w_out.present}
  /\ req_id' = req_id + 1
  /\ w_out' = [w_out EXCEPT !.present = {}]
  /\ UNCHANGED <<self, time, firing, events, present, Aout, w_in, drawn, counter,
                 counter_out, overrun>>

\* The values that action a carries at time s.
At(a, s) == {e.value : e \in {f \in events : f.action = a /\ f.time = s}}

\* The runtime goes on to the next tag.
AdvanceTime ==
  /\ overrun = {} /\ \A m \in DOMAIN Waiting : Waiting[m] = {}
  /\ \E s \in {firing} \cup {e.time : e \in events} :
       /\ s <= firing /\ \A e \in events : s <= e.time
       /\ time' = s
       /\ present' = [t |-> IF s = firing THEN {0} ELSE {},
                      post |-> At("post", s), delayed_trigger |-> At("delayed_trigger", s)]
       /\ events' = {e \in events : e.time # s}
       /\ firing' = IF s = firing THEN firing + self.period ELSE firing
  /\ UNCHANGED <<self, Aout, w_in, w_out, drawn, counter, counter_out, req_id,
                 printed, overrun>>

Next ==
  \/ A_t \/ A_post \/ B_Bin \/ Wire_in \/ Wire_delayed_trigger \/ B_w_out
  \/ AdvanceTime

Spec == Init /\ [][Next]_vars

-----------------------------------------------------------------------------
(* Properties *)

\* api/set.h says of lf_set: "Set the specified output (or input of a contained
\* reactor) to the specified value."  The port that A makes present would then
\* have the number that it drew.
SetsTheOutput ==
  [][A_post /\ overrun' = {} =>
       \A i \in Aout'.present : Aout'.value[i] = drawn']_vars

\* The channel on which A sends the n-th value that it sends.
Channel(n) == Evaluates.all * (n - 1) + Evaluates.is_present

\* The Wire numbers its outputs without looking at its inputs, yet its counter
\* keeps step with A's: every value leaves the Wire on the channel on which A
\* sent it, until A, whose counter is never reset, leaves its bank.  The Wire
\* never does.
InStep ==
  /\ Aout.present \subseteq {Channel(drawn)}
  /\ w_in.present \subseteq {Channel(drawn)}
  /\ w_out.present \subseteq {Channel(req_id + 1)}
  /\ "Wire" \notin overrun

\* The values that are between A's port and B's printing.
UnderWay ==
  Cardinality(Aout.present) + Cardinality(w_in.present) + Cardinality(w_out.present)
    + Cardinality(present.delayed_trigger)
    + Cardinality({e \in events : e.action = "delayed_trigger"})

\* The counter of A leaves its bank, but not before A has sent a value for every
\* three ports of it; and until then every value sent is on its way or was
\* printed: the Wire, which may hold several of them, drops and adds none.
NoneLost ==
  /\ 3 * drawn <= self.width => overrun = {}
  /\ overrun = {} => req_id + UnderWay = drawn
====
