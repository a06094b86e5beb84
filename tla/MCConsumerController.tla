------------------------ MODULE MCConsumerController ------------------------
(***************************************************************************)
(* Model-checking instance of ConsumerController.  main.cpp's sizes scaled *)
(* down keeping its percentages: a worker queue of 5 gives the thresholds  *)
(* 5*20/100 = 1 and 5*80/100 = 4, as 200 gives 40 and 160.  Input and     *)
(* output queues of 2 keep the producers and consumers blocking on full   *)
(* queues.  Up to 3 consumers: enough for two scale-ups and a scale-down  *)
(* that cancels a busy consumer.                                          *)
(***************************************************************************)
EXTENDS ConsumerController

MCReaderQueueSize == 2
MCWorkerQueueSize == 5
MCWriterQueueSize == 2
MCLowPercentage == 20
MCHighPercentage == 80
MCMaxConsumers == 3
\* One line more than the high threshold: the smallest input that can start
\* a consumer.
MCLinesAboveHigh == 5
\* An input that never fills the worker queue past the high threshold.
MCLinesAtHigh == 4
=============================================================================
