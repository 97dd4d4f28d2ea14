------------------------------ MODULE KcpTuner ------------------------------
(***************************************************************************)
(* AdaptiveConfigTuner and ConfigValidator (kcp/util/config.go): the          *)
(* parameters of a KCP connection, chosen again at most once per interval     *)
(* from the base configuration and what was measured.  Durations are in       *)
(* milliseconds, the loss in tenths of a percent, the throughput in MiB, and  *)
(* the clock in parts of the tuning interval.                                *)
(***************************************************************************)
EXTENDS Integers, Sequences, Folds

CONSTANTS
  BaseConfigs,    \* the configurations a tuner may be made from
  RTTs,           \* round trip times AddRTTSample may be given
  Losses,         \* losses UpdatePacketLoss may be given
  Throughputs,    \* throughputs UpdateThroughput may be given
  MaxRTTSamples,  \* maxRTTSamples
  TuningInterval  \* tuningInterval

\* The part of conf.KCP the tuner and the validator look at; the keep-alive and the
\* stream count, which no tuning touches, are validated once, in NewDialer.
Configs == [noDelay : {"base", "high", "low"}, window : Int, mtu : Int, data : Int, parity : Int]

ConfigNotValid(c) ==
  \/ c.mtu < 576 \/ c.mtu > 1500
  \/ c.data < 0 \/ c.data > 255
  \/ c.parity < 0 \/ c.parity > 255
  \/ c.window <= 0

Validate(c) == ~ ConfigNotValid(c)

\* NewDialer and NewListener validate the base configuration.
BaseAssumption ==
  /\ BaseConfigs \subseteq Configs
  /\ \A c \in BaseConfigs : Validate(c)

SampleAssumption ==
  /\ RTTs \subseteq Nat /\ Losses \subseteq Nat /\ Throughputs \subseteq Nat
  /\ 0 \in Losses /\ 0 \in Throughputs
  /\ MaxRTTSamples \in Nat \ {0} /\ TuningInterval \in Nat \ {0}

VARIABLES
  baseConfig, currentConfig,
  sinceTuned,   \* time since lastTuned, up to the interval
  rttSamples, packetLoss, throughput

tunerVars == <<baseConfig, currentConfig, sinceTuned, rttSamples, packetLoss, throughput>>

\* NewAdaptiveConfigTuner.
TunerInit ==
  /\ baseConfig \in BaseConfigs
  /\ currentConfig = baseConfig
  /\ sinceTuned = 0 /\ rttSamples = <<>> /\ packetLoss = 0 /\ throughput = 0

AddRTTSample(rtt) ==
  /\ rttSamples' = IF Len(rttSamples) < MaxRTTSamples THEN Append(rttSamples, rtt)
                   ELSE Tail(Append(rttSamples, rtt))
  /\ UNCHANGED <<baseConfig, currentConfig, sinceTuned, packetLoss, throughput>>

UpdatePacketLoss(loss) ==
  /\ packetLoss' = loss
  /\ UNCHANGED <<baseConfig, currentConfig, sinceTuned, rttSamples, throughput>>

UpdateThroughput(t) ==
  /\ throughput' = t
  /\ UNCHANGED <<baseConfig, currentConfig, sinceTuned, rttSamples, packetLoss>>

Plus(a, b) == a + b
AverageRTT == MapThenFoldSet(Plus, 0, LAMBDA i : rttSamples[i], LAMBDA S : CHOOSE i \in S : TRUE,
                             DOMAIN rttSamples) \div Len(rttSamples)

Window(c, size) == [c EXCEPT !.window = size]

\* The three adjustments, in the code's order.
ForRTT(c) ==
  IF rttSamples # <<>> /\ AverageRTT > 100 THEN [Window(c, 512) EXCEPT !.noDelay = "high"]
  ELSE IF rttSamples # <<>> /\ AverageRTT < 20 THEN [Window(c, 128) EXCEPT !.noDelay = "low"]
  ELSE c

ForLoss(c) ==
  IF packetLoss > 50 THEN IF c.data > 0 /\ c.parity < 5 THEN [c EXCEPT !.parity = @ + 1] ELSE c
  ELSE IF packetLoss < 10 /\ c.parity > 1 THEN [c EXCEPT !.parity = @ - 1]
  ELSE c

ForThroughput(c) == IF throughput > 10 THEN [Window(c, 512) EXCEPT !.mtu = 1400] ELSE c

Tuned(c) == ForThroughput(ForLoss(ForRTT(c)))

TuneConfig ==
  /\ sinceTuned = TuningInterval
  /\ currentConfig' = Tuned(baseConfig)
  /\ sinceTuned' = 0
  /\ UNCHANGED <<baseConfig, rttSamples, packetLoss, throughput>>

Reset ==
  /\ currentConfig' = baseConfig
  /\ rttSamples' = <<>> /\ packetLoss' = 0 /\ throughput' = 0 /\ sinceTuned' = 0
  /\ UNCHANGED baseConfig

\* Time passes.
Tick ==
  /\ sinceTuned < TuningInterval
  /\ sinceTuned' = sinceTuned + 1
  /\ UNCHANGED <<baseConfig, currentConfig, rttSamples, packetLoss, throughput>>

TunerNext ==
  \/ \E rtt \in RTTs : AddRTTSample(rtt)
  \/ \E loss \in Losses : UpdatePacketLoss(loss)
  \/ \E t \in Throughputs : UpdateThroughput(t)
  \/ TuneConfig \/ Reset \/ Tick

TunerSpec == TunerInit /\ [][TunerNext]_tunerVars

-----------------------------------------------------------------------------
(***************************************************************************)
(* Properties.                                                              *)
(***************************************************************************)
\* Type invariant.
TunerTypeOK ==
  /\ baseConfig \in BaseConfigs /\ currentConfig \in Configs
  /\ sinceTuned \in 0..TuningInterval
  /\ rttSamples \in Seq(RTTs) /\ Len(rttSamples) <= MaxRTTSamples
  /\ packetLoss \in Losses /\ throughput \in Throughputs

\* However often and on whatever measurements TuneConfig runs, it hands out a
\* configuration that Validate would accept.
TunedIsValid == Validate(currentConfig)

\* The parity never drifts: however long the loss lasts it stays within one shard of
\* the base configuration's, and without data shards (FEC off) it never grows.
ParityNearBase ==
  /\ currentConfig.parity - baseConfig.parity \in -1..1
  /\ baseConfig.data = 0 => currentConfig.parity <= baseConfig.parity

=============================================================================
