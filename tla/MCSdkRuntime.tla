---- MODULE MCSdkRuntime ----
\* Small instances of SdkRuntime.
EXTENDS SdkRuntime
====
