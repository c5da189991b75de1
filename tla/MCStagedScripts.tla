---- MODULE MCStagedScripts ----
EXTENDS StagedScripts
====
