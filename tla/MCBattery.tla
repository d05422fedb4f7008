-------------------------------- MODULE MCBattery --------------------------------
EXTENDS Battery

\* Four voltages around the thresholds with the wheels at rest; the wheel speeds
\* that on SPI pass for a header and, in the next report, for its footer; and
\* one that on the serial line passes for a preamble with a voltage of 0.
MCReports ==
    {<<v, 0, 0, 0>> : v \in 1..4} \cup {<<4, 0, Footer, Header>>, <<4, Header, 0, 0>>}

================================================================================
