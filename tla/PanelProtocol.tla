---------------------------- MODULE PanelProtocol ----------------------------
(***************************************************************************)
(* The helpers every CRUD panel repeats: the task/status triple kept in   *)
(* useState hooks (startTask, endTask of IndicesTable.tsx and              *)
(* FieldsTable.tsx) and the create-or-delete decision of                   *)
(* CreateOrDeleteButton.tsx.  A panel's status is a record with fields     *)
(* task, error and spinning; "" stands for both '' and undefined, which    *)
(* the code's truthiness tests treat alike.                                *)
(***************************************************************************)

(* startTask(newTask?): spin; a label replaces the task and clears the error *)
startTask(s, newTask) ==
    [s EXCEPT !.spinning = TRUE,
              !.task  = IF newTask # "" THEN newTask ELSE @,
              !.error = IF newTask # "" THEN "" ELSE @]

(* endTask(newTask?, newError?): stop spinning; an error wins, a label    *)
(* without an error clears it, neither leaves both alone                  *)
endTask(s, newTask, newError) ==
    [s EXCEPT !.spinning = FALSE,
              !.task  = IF newTask # "" THEN newTask ELSE @,
              !.error = IF newError # "" THEN newError
                        ELSE IF newTask # "" THEN "" ELSE @]

(* CreateOrDeleteButton: Delete when the typed name is the selected one, *)
(* otherwise Create, disabled for an empty name                          *)
ButtonMode(name, selectedName) ==
    IF name # "" /\ name = selectedName THEN "delete"
    ELSE IF name # "" THEN "create"
    ELSE "disabled"

=============================================================================
