------------------------------ MODULE MCThread ------------------------------
\* One thread object has no parameters: the run looks at all its lives.
EXTENDS Thread
=============================================================================
