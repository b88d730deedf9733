-------------------------- MODULE MCDevicePipeline --------------------------
\* The receiver's two queues, each on its own: the frame queue, with a pool of
\* four and counters that wrap within the bound, and the batch ring, with two
\* slots and enough datagrams to fill it twice.  A behaviour is of one of them.
EXTENDS FrameQueue, BatchStream

VARIABLE part
pipelineVars == <<part, queueVars, vars>>

PipelineInit ==
  /\ part \in {"frames", "batches"} /\ QueueInit /\ Init
  /\ part = "frames" => dns

Frames == part = "frames" /\ QueueNext /\ UNCHANGED <<part, vars>>
Batches == part = "batches" /\ Next /\ UNCHANGED <<part, queueVars>>

\* As in FrameQueue and BatchStream.
PipelineFairness ==
  /\ WF_queueVars(part = "frames" /\ (Publish \/ Signal))
  /\ WF_queueVars(part = "frames" /\ Encoder)
  /\ WF_vars(part = "batches" /\ (PushFull \/ IdleTick \/ Flush \/ Give))
  /\ WF_vars(part = "batches" /\ Network)

PipelineSpec ==
  PipelineInit /\ [][Frames \/ Batches]_pipelineVars /\ PipelineFairness
=============================================================================
