-------------------------------- MODULE Tasks --------------------------------
(***************************************************************************)
(* The columns of the tasks table that planning writes once and nothing    *)
(* changes afterwards (migrations 001, 002; common/db.py insert_task).     *)
(***************************************************************************)
CONSTANTS
    Task,         \* tasks of the scan, one per idempotency key
    Step,         \* workflow steps
    StepOf,       \* step_name of a task
    DependsOn,    \* depends_on, the same for all tasks of a step
    FindingType,  \* finding types
    WhenFinding   \* when_finding_type: {} for NULL, else {type}

ASSUME TasksAssumption ==
    /\ StepOf \in [Task -> Step]
    /\ DependsOn \in [Step -> SUBSET Step]
    /\ WhenFinding \in [Step -> SUBSET FindingType]

TasksOf(steps) == {t \in Task : StepOf[t] \in steps}
=============================================================================
