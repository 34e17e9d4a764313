------------------------------- MODULE Sampler -------------------------------
(***************************************************************************)
(* pkg/sampler/sampler.go: jobs that measure the usage of a tenant, and    *)
(* the consumer that handles what they measure.  Register hands the tenant *)
(* to the goroutine of Start, which launches Sample and announces the      *)
(* tenant to the goroutine of Handle, which launches the consumer.         *)
(*                                                                         *)
(* A component of ServerLife.  All channels are unbuffered; a handshake is *)
(* one action.                                                             *)
(***************************************************************************)
EXTENDS Naturals

CONSTANT Tenants

VARIABLES
  sample,    \* sample[t]: "none", "registered" (in ctx, its Register blocked in the
             \* send), "taken" (by the goroutine of Start), "sampling", "sending"
  consumer,  \* consumer[t]: "none", "announced", "taken" (by the goroutine of Handle),
             \* "receiving"
  stopAll,   \* StopAll: "open", "closing" (holds mu), "done"
  closing    \* the tenant whose job StopAll has come to, if any: a set of at most one

samplerVars == <<sample, consumer, stopAll, closing>>

InitSampler ==
  /\ sample = [t \in Tenants |-> "none"]
  /\ consumer = [t \in Tenants |-> "none"]
  /\ stopAll = "open"
  /\ closing = {}

MuFree == stopAll # "closing"
Registered(t) == sample[t] # "none"

\* Register: the job is in ctx, and the send on newProducerRegistered begins.
Register(t) ==
  /\ MuFree
  /\ sample' = IF Registered(t) THEN sample ELSE [sample EXCEPT ![t] = "registered"]
  /\ UNCHANGED <<consumer, stopAll, closing>>

\* The goroutine of Start receives it, which ends Register ...
TakeProducer(t) ==
  /\ sample[t] = "registered" /\ stopAll # "done"
  /\ \A u \in Tenants : sample[u] # "taken"
  /\ sample' = [sample EXCEPT ![t] = "taken"]
  /\ UNCHANGED <<consumer, stopAll, closing>>

\* ... and takes mu to find the job and launch Sample.
Launch(t) ==
  /\ sample[t] = "taken" /\ MuFree
  /\ sample' = [sample EXCEPT ![t] = "sampling"]
  /\ consumer' = [consumer EXCEPT ![t] = "announced"]
  /\ UNCHANGED <<stopAll, closing>>

\* Handle receives the announcement ...
TakeConsumer(t) ==
  /\ consumer[t] = "announced" /\ stopAll # "done"
  /\ \A u \in Tenants : consumer[u] # "taken"
  /\ consumer' = [consumer EXCEPT ![t] = "taken"]
  /\ UNCHANGED <<sample, stopAll, closing>>

\* ... and takes mu to look up the channel.
Consume(t) ==
  /\ consumer[t] = "taken" /\ MuFree
  /\ consumer' = [consumer EXCEPT ![t] = IF Registered(t) THEN "receiving" ELSE "none"]
  /\ UNCHANGED <<sample, stopAll, closing>>

Tick(t) ==
  /\ sample[t] = "sampling"
  /\ sample' = [sample EXCEPT ![t] = "sending"]
  /\ UNCHANGED <<consumer, stopAll, closing>>

\* The consumer submits the usage at the full hour, or keeps the peak.
Deliver(t) ==
  /\ sample[t] = "sending" /\ consumer[t] = "receiving"
  /\ sample' = [sample EXCEPT ![t] = "sampling"]
  /\ UNCHANGED <<consumer, stopAll, closing>>

StopAllBegin ==
  /\ stopAll = "open"
  /\ stopAll' = "closing"
  /\ UNCHANGED <<sample, consumer, closing>>

\* The range over ctx comes to a job and waits in its Close ...
StopAllNext(t) ==
  /\ stopAll = "closing" /\ closing = {}
  /\ Registered(t)
  /\ closing' = {t}
  /\ UNCHANGED <<sample, consumer, stopAll>>

\* ... until Sample, between two ticks, takes the close signal and is done; the
\* channel is closed, which ends the consumer, and the job leaves ctx.
CloseJob(t) ==
  /\ closing = {t} /\ sample[t] = "sampling"
  /\ sample' = [sample EXCEPT ![t] = "none"]
  /\ consumer' = [consumer EXCEPT ![t] = IF @ = "receiving" THEN "none" ELSE @]
  /\ closing' = {}
  /\ UNCHANGED stopAll

StopAllEnd ==
  /\ stopAll = "closing" /\ closing = {}
  /\ \A t \in Tenants : ~Registered(t)
  /\ stopAll' = "done"
  /\ UNCHANGED <<sample, consumer, closing>>

\* StopAll waits for a job whose Sample cannot come to take the signal: it has
\* not been launched, or waits for a consumer that has not been launched, and
\* the launch needs mu.
StopAllStuck ==
  \E t \in closing : \/ sample[t] \in {"registered", "taken"}
                    \/ (sample[t] = "sending" /\ consumer[t] \in {"announced", "taken"})

NewSampler ==
  /\ sample' = [t \in Tenants |-> "none"]
  /\ consumer' = [t \in Tenants |-> "none"]
  /\ stopAll' = "open"
  /\ closing' = {}

SamplerStep(t) ==
  TakeProducer(t) \/ Launch(t) \/ TakeConsumer(t) \/ Consume(t) \/ Deliver(t)
=============================================================================
