-------------------------- MODULE MCIntentosFallidos --------------------------
EXTENDS IntentosFallidos
CONSTANTS venta, r1
=============================================================================
