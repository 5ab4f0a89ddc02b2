------------------------ MODULE MCInterviewWorkflow ------------------------
(* TLC instance of InterviewWorkflow. *)
EXTENDS InterviewWorkflow
============================================================================
