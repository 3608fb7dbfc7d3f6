----------------------- MODULE MCCommandServerSystem -----------------------
(* Instances of CommandServerSystem for TLC.                                *)
EXTENDS CommandServerSystem

Form(ctype, payload, reply, corr) ==
  [ctype |-> ctype, payload |-> payload, reply |-> reply, corr |-> corr]

(* What the .NET, TypeScript and C command clients publish.                  *)
SampleForms == {Form("protobuf", "unlock", TRUE, TRUE)}

(* ... and what command_invoker.py publishes.                                *)
PythonForms == {Form("none", "placeholder", TRUE, TRUE)}

(* ... and what any other MQTT client could publish.                         *)
AnyForms ==
  SampleForms \cup PythonForms \cup
    {Form("none", "unlock", TRUE, TRUE), Form("protobuf", "junk", TRUE, TRUE),
     Form("protobuf", "unlock", FALSE, TRUE), Form("protobuf", "unlock", TRUE, FALSE)}
=============================================================================
