--------------------------- MODULE MCCronService ---------------------------
(* TLC instances of CronService: a one-shot job that is due at once, a      *)
(* cron job and one that repeats every Period.                              *)
EXTENDS CronService

CONSTANTS once, daily, hourly

MCKind ==
    [j \in Jobs |-> CASE j = once -> "at" [] j = daily -> "cron" [] j = hourly -> "every"]
MCAt == [j \in Jobs |-> 1]
=============================================================================
