---------------------------- MODULE MCAsyncReader ---------------------------
EXTENDS AsyncReader
=============================================================================
