------------------------------ MODULE MCLogViewer ------------------------------
EXTENDS LogViewer
================================================================================
