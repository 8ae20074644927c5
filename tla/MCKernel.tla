------------------------------- MODULE MCKernel -------------------------------
EXTENDS JosKernel
=============================================================================
